---- MODULE Spec2Model ----
(***************************************************************************)
(* Allocator-trace verification engine of xv6-riscv-lab.                   *)
(*                                                                         *)
(* The model holds one PageAllocAnalyzer (page_log_analyzer.py) and one    *)
(* DoubleAllocAnalyzer (double_alloc_analyzer.py), both reading the same   *)
(* log, one line per step.  The variables of DoubleAllocAnalyzer carry the *)
(* prefix d_.  A Python dict is a sequence of [k, v] entries in insertion  *)
(* order, because _validate_slab_in_slab_page iterates allocated_pages and *)
(* stops at the first hit.  Python integers are unbounded, and so are the  *)
(* integers here.                                                          *)
(***************************************************************************)
EXTENDS Integers, Sequences, FiniteSets, TLC

(***************************************************************************)
(* Bounds of the model and the input alphabet.                             *)
(***************************************************************************)
\* number of lines of the log file
MaxLines == 3

PAGE_SIZE == 4096
PAGE_FLAG_SLAB == 128

\* Optional[int] = None in the error records
None == -1

\* base addresses, orders and flags that page_alloc / page_free lines carry
PageAddrs == {1 * PAGE_SIZE, 2 * PAGE_SIZE, 3 * PAGE_SIZE}
Orders == {0, 1}
AllocFlags == {0, PAGE_FLAG_SLAB}
FreeFlags == {0}

\* caches and object addresses that slab_alloc / slab_free lines carry
Caches == { [name |-> "kmalloc", ptr |-> 1, size |-> 64],
            [name |-> "inode", ptr |-> 2, size |-> 128] }
ObjAddrs == {2 * PAGE_SIZE + 64, 3 * PAGE_SIZE + 64}

\* ranges that page_buddy_init() lines carry
BuddyRanges == { [start |-> 2 * PAGE_SIZE, end |-> 4 * PAGE_SIZE],
                 [start |-> 1 * PAGE_SIZE, end |-> 3 * PAGE_SIZE] }

VARIABLES
    line_num,
    events, slab_events, buddy_init_event,
    allocated_pages, freed_pages, allocated_slab_objs, freed_slab_objs,
    allocation_stats, deallocation_stats, flag_stats, order_stats,
    slab_allocation_stats, slab_deallocation_stats, slab_size_stats,
    double_allocations, double_frees,
    slab_double_allocations, slab_double_frees,
    slab_page_validation_errors, page_range_validation_errors,
    d_events, d_slab_events,
    d_allocated_pages, d_freed_pages,
    d_double_allocations, d_double_frees,
    d_allocated_slab_objs, d_freed_slab_objs,
    d_slab_double_allocations, d_slab_double_frees,
    exit_status, d_exit_status,
    lines, unread,
    embed_args, kernel_file, embed_exit,
    head_list, walk_pc, steps, next_ptr, cycle_guard, nodes, count, truncated

pvars == << events, slab_events, buddy_init_event,
            allocated_pages, freed_pages, allocated_slab_objs, freed_slab_objs,
            allocation_stats, deallocation_stats, flag_stats, order_stats,
            slab_allocation_stats, slab_deallocation_stats, slab_size_stats,
            double_allocations, double_frees,
            slab_double_allocations, slab_double_frees,
            slab_page_validation_errors, page_range_validation_errors >>

dvars == << d_events, d_slab_events, d_allocated_pages, d_freed_pages,
            d_double_allocations, d_double_frees,
            d_allocated_slab_objs, d_freed_slab_objs,
            d_slab_double_allocations, d_slab_double_frees >>

\* exit_status, d_exit_status: the status each analyzer has exited with, None
\* while it runs
\* lines: the lines of the file read so far; unread: the lines of the file left
\* unread when an analyzer exits (the input, not fields of an analyzer)
\* embed_args: the arguments and files embed_ksymbols.py is run on; kernel_file:
\* the bytes of the kernel file; embed_exit: its exit status, None while it has
\* not run
avars == << line_num, pvars, dvars, exit_status, d_exit_status, lines, unread >>
evars == << embed_args, kernel_file, embed_exit >>
lvars == << head_list, walk_pc, steps, next_ptr, cycle_guard, nodes, count, truncated >>
vars == << avars, evars, lvars >>

(***************************************************************************)
(* Python values.                                                          *)
(***************************************************************************)
RECURSIVE Pow2(_)
Pow2(n) == IF n = 0 THEN 1 ELSE 2 * Pow2(n - 1)

\* flags & mask, for a mask of one bit
BitAnd(flags, mask) == IF (flags \div mask) % 2 = 1 THEN mask ELSE 0

DictHas(d, k) == \E i \in 1..Len(d) : d[i].k = k

DictGet(d, k) == d[CHOOSE i \in 1..Len(d) : d[i].k = k].v

DictSet(d, k, v) ==
    IF DictHas(d, k)
    THEN [i \in 1..Len(d) |-> IF d[i].k = k THEN [k |-> k, v |-> v] ELSE d[i]]
    ELSE Append(d, [k |-> k, v |-> v])

DictDel(d, k) == SelectSeq(d, LAMBDA e : e.k # k)

DictKeys(d) == {d[i].k : i \in 1..Len(d)}

\* Counter: c[key] += n, a missing key counting as 0
CounterAdd(c, key, n) ==
    IF key \in DOMAIN c THEN [c EXCEPT ![key] = @ + n]
    ELSE [x \in DOMAIN c \cup {key} |-> IF x = key THEN n ELSE c[x]]

EmptyCounter == [x \in {} |-> 0]

PageEvent(event_type, order, flags, page_addr, line_number) ==
    [event_type |-> event_type, order |-> order, flags |-> flags,
     page_addr |-> page_addr, line_number |-> line_number]

SlabEvent(event_type, cache_name, cache_ptr, obj_addr, obj_size, line_number) ==
    [event_type |-> event_type, cache_name |-> cache_name, cache_ptr |-> cache_ptr,
     obj_addr |-> obj_addr, obj_size |-> obj_size, line_number |-> line_number]

BuddyInitEvent(start_addr, end_addr, line_number) ==
    [start_addr |-> start_addr, end_addr |-> end_addr, line_number |-> line_number]

DoubleAllocationError(page_addr, prev_alloc, event) ==
    [page_addr |-> page_addr,
     first_alloc_line |-> prev_alloc.line_number,
     first_alloc_order |-> prev_alloc.order,
     first_alloc_flags |-> prev_alloc.flags,
     second_alloc_line |-> event.line_number,
     second_alloc_order |-> event.order,
     second_alloc_flags |-> event.flags]

DoubleFreeError(page_addr, event, error_type, original_alloc_line) ==
    [page_addr |-> page_addr, free_line |-> event.line_number,
     free_order |-> event.order, free_flags |-> event.flags,
     error_type |-> error_type, original_alloc_line |-> original_alloc_line]

SlabDoubleAllocationError(prev_alloc, event) ==
    [obj_addr |-> event.obj_addr, cache_name |-> event.cache_name,
     first_alloc_line |-> prev_alloc.line_number,
     first_alloc_cache |-> prev_alloc.cache_name,
     first_alloc_size |-> prev_alloc.obj_size,
     second_alloc_line |-> event.line_number,
     second_alloc_cache |-> event.cache_name,
     second_alloc_size |-> event.obj_size]

SlabDoubleFreeError(event, error_type, original_alloc_line) ==
    [obj_addr |-> event.obj_addr, cache_name |-> event.cache_name,
     free_line |-> event.line_number, free_size |-> event.obj_size,
     error_type |-> error_type, original_alloc_line |-> original_alloc_line]

SlabPageValidationError(event, page_addr, page_flags, error_type) ==
    [obj_addr |-> event.obj_addr, cache_name |-> event.cache_name,
     obj_size |-> event.obj_size, line_number |-> event.line_number,
     page_addr |-> page_addr, page_flags |-> page_flags, error_type |-> error_type]

PageRangeValidationError(event, buddy_start, buddy_end) ==
    [page_addr |-> event.page_addr, order |-> event.order, flags |-> event.flags,
     line_number |-> event.line_number,
     buddy_start |-> buddy_start, buddy_end |-> buddy_end]

(***************************************************************************)
(* PageAllocAnalyzer: the handlers of page_log_analyzer.py.                *)
(***************************************************************************)

\* validate_page_range rejecting a range that ends exactly at the arena's end
validate_page_range_end_inclusive(event, buddy, errors) ==
    IF buddy = << >> THEN errors
    ELSE LET end_addr == event.page_addr + (Pow2(event.order) * PAGE_SIZE)
         IN  IF event.page_addr < buddy[1].start_addr \/ end_addr >= buddy[1].end_addr
             THEN Append(errors, PageRangeValidationError(event, buddy[1].start_addr,
                                                          buddy[1].end_addr))
             ELSE errors

\* validate_page_range taking a missing arena for the empty arena [0, 0)
validate_page_range_no_arena_empty(event, buddy, errors) ==
    LET buddy_start == IF buddy = << >> THEN 0 ELSE buddy[1].start_addr
        buddy_end == IF buddy = << >> THEN 0 ELSE buddy[1].end_addr
        end_addr == event.page_addr + (Pow2(event.order) * PAGE_SIZE)
    IN  IF event.page_addr < buddy_start \/ end_addr > buddy_end
        THEN Append(errors, PageRangeValidationError(event, buddy_start, buddy_end))
        ELSE errors

\* validate_page_range putting the new record at the head of the list
validate_page_range_prepend(event, buddy, errors) ==
    IF buddy = << >> THEN errors
    ELSE LET page_count == Pow2(event.order)
             start_addr == event.page_addr
             end_addr   == event.page_addr + (page_count * PAGE_SIZE)
             buddy_start == buddy[1].start_addr
             buddy_end   == buddy[1].end_addr
         IN  IF start_addr < buddy_start \/ end_addr > buddy_end
             THEN << PageRangeValidationError(event, buddy_start, buddy_end) >> \o errors
             ELSE errors

\* validate_page_range recording one error for each page of the block
RECURSIVE validate_page_range_pages(_, _, _, _)
validate_page_range_pages(event, buddy, errors, i) ==
    IF i >= Pow2(event.order) THEN errors
    ELSE validate_page_range_pages(event, buddy,
             Append(errors, PageRangeValidationError(event, buddy[1].start_addr,
                                                     buddy[1].end_addr)), i + 1)

validate_page_range_per_page(event, buddy, errors) ==
    IF buddy = << >> THEN errors
    ELSE LET page_count == Pow2(event.order)
             start_addr == event.page_addr
             end_addr   == event.page_addr + (page_count * PAGE_SIZE)
             buddy_start == buddy[1].start_addr
             buddy_end   == buddy[1].end_addr
         IN  IF start_addr < buddy_start \/ end_addr > buddy_end
             THEN validate_page_range_pages(event, buddy, errors, 0)
             ELSE errors

\* _validate_page_range: the range errors after validating one allocation
validate_page_range(event, buddy, errors) ==
    IF buddy = << >> THEN errors
    ELSE LET page_count == Pow2(event.order)
             start_addr == event.page_addr
             end_addr   == event.page_addr + (page_count * PAGE_SIZE)
             buddy_start == buddy[1].start_addr
             buddy_end   == buddy[1].end_addr
         IN  IF start_addr < buddy_start \/ end_addr > buddy_end
             THEN Append(errors, PageRangeValidationError(event, buddy_start, buddy_end))
             ELSE errors

\* process_allocation_loop with the membership test after the store
RECURSIVE process_allocation_loop_store_first(_, _, _, _)
process_allocation_loop_store_first(event, i, ap, da) ==
    IF i >= Pow2(event.order)
    THEN [allocated_pages |-> ap, double_allocations |-> da]
    ELSE LET page_addr == event.page_addr + (i * PAGE_SIZE)
             ap2 == DictSet(ap, page_addr, event)
             da2 == IF DictHas(ap2, page_addr)
                    THEN Append(da, DoubleAllocationError(page_addr, DictGet(ap2, page_addr), event))
                    ELSE da
         IN  process_allocation_loop_store_first(event, i + 1, ap2, da2)

\* process_allocation_loop keeping the first owner of a doubly allocated page
RECURSIVE process_allocation_loop_first_wins(_, _, _, _)
process_allocation_loop_first_wins(event, i, ap, da) ==
    IF i >= Pow2(event.order)
    THEN [allocated_pages |-> ap, double_allocations |-> da]
    ELSE LET page_addr == event.page_addr + (i * PAGE_SIZE)
         IN  IF DictHas(ap, page_addr)
             THEN process_allocation_loop_first_wins(event, i + 1, ap,
                      Append(da, DoubleAllocationError(page_addr, DictGet(ap, page_addr), event)))
             ELSE process_allocation_loop_first_wins(event, i + 1,
                      DictSet(ap, page_addr, event), da)

\* process_allocation_loop storing every page of the block under the base address
RECURSIVE process_allocation_loop_base_only(_, _, _, _)
process_allocation_loop_base_only(event, i, ap, da) ==
    IF i >= Pow2(event.order)
    THEN [allocated_pages |-> ap, double_allocations |-> da]
    ELSE LET page_addr == event.page_addr
             da2 == IF DictHas(ap, page_addr) /\ i = 0
                    THEN Append(da, DoubleAllocationError(page_addr, DictGet(ap, page_addr), event))
                    ELSE da
         IN  process_allocation_loop_base_only(event, i + 1,
                                               DictSet(ap, page_addr, event), da2)

\* process_allocation_loop walking the block from its last page down to its base
RECURSIVE process_allocation_loop_descending(_, _, _, _)
process_allocation_loop_descending(event, i, ap, da) ==
    IF i >= Pow2(event.order)
    THEN [allocated_pages |-> ap, double_allocations |-> da]
    ELSE LET page_addr == event.page_addr + ((Pow2(event.order) - 1 - i) * PAGE_SIZE)
             da2 == IF DictHas(ap, page_addr)
                    THEN Append(da, DoubleAllocationError(page_addr, DictGet(ap, page_addr), event))
                    ELSE da
         IN  process_allocation_loop_descending(event, i + 1,
                                                DictSet(ap, page_addr, event), da2)

\* process_allocation_loop leaving the block at its first conflicting page
RECURSIVE process_allocation_loop_stop_at_conflict(_, _, _, _)
process_allocation_loop_stop_at_conflict(event, i, ap, da) ==
    IF i >= Pow2(event.order)
    THEN [allocated_pages |-> ap, double_allocations |-> da]
    ELSE LET page_addr == event.page_addr + (i * PAGE_SIZE)
         IN  IF DictHas(ap, page_addr)
             THEN [allocated_pages |-> DictSet(ap, page_addr, event),
                   double_allocations |->
                       Append(da, DoubleAllocationError(page_addr,
                                                        DictGet(ap, page_addr), event))]
             ELSE process_allocation_loop_stop_at_conflict(event, i + 1,
                      DictSet(ap, page_addr, event), da)

\* process_allocation_loop treating a page with a free record as a conflict
RECURSIVE process_allocation_loop_freed_poisons(_, _, _, _, _)
process_allocation_loop_freed_poisons(event, i, ap, da, fp) ==
    IF i >= Pow2(event.order)
    THEN [allocated_pages |-> ap, double_allocations |-> da]
    ELSE LET page_addr == event.page_addr + (i * PAGE_SIZE)
             da2 == IF DictHas(ap, page_addr)
                    THEN Append(da, DoubleAllocationError(page_addr,
                                                          DictGet(ap, page_addr), event))
                    ELSE IF DictHas(fp, page_addr)
                         THEN Append(da, DoubleAllocationError(page_addr,
                                                          DictGet(fp, page_addr), event))
                         ELSE da
         IN  process_allocation_loop_freed_poisons(event, i + 1,
                                                   DictSet(ap, page_addr, event), da2, fp)

\* process_allocation_loop with the freed map in view
process_allocation_loop_poisoned(event, i, ap, da) ==
    process_allocation_loop_freed_poisons(event, i, ap, da, freed_pages)

\* the loop of _process_allocation from page i on
RECURSIVE process_allocation_loop(_, _, _, _)
process_allocation_loop(event, i, ap, da) ==
    IF i >= Pow2(event.order)
    THEN [allocated_pages |-> ap, double_allocations |-> da]
    ELSE LET page_addr == event.page_addr + (i * PAGE_SIZE)
             da2 == IF DictHas(ap, page_addr)
                    THEN Append(da, DoubleAllocationError(page_addr, DictGet(ap, page_addr), event))
                    ELSE da
         IN  process_allocation_loop(event, i + 1, DictSet(ap, page_addr, event), da2)

\* process_deallocation_loop recording the free event on a normal free only
RECURSIVE process_deallocation_loop_no_record(_, _, _, _, _)
process_deallocation_loop_no_record(event, i, ap, fp, df) ==
    IF i >= Pow2(event.order)
    THEN [allocated_pages |-> ap, freed_pages |-> fp, double_frees |-> df]
    ELSE LET page_addr == event.page_addr + (i * PAGE_SIZE)
         IN  IF ~DictHas(ap, page_addr)
             THEN IF DictHas(fp, page_addr)
                  THEN process_deallocation_loop_no_record(event, i + 1, ap, fp,
                           Append(df, DoubleFreeError(page_addr, event, "double_free",
                                      DictGet(fp, page_addr).line_number)))
                  ELSE process_deallocation_loop_no_record(event, i + 1, ap, fp,
                           Append(df, DoubleFreeError(page_addr, event,
                                      "free_without_alloc", None)))
             ELSE process_deallocation_loop_no_record(event, i + 1,
                      DictDel(ap, page_addr), DictSet(fp, page_addr, event), df)

\* process_deallocation_loop keeping the first free as the baseline of later
\* double frees
RECURSIVE process_deallocation_loop_first_free(_, _, _, _, _)
process_deallocation_loop_first_free(event, i, ap, fp, df) ==
    IF i >= Pow2(event.order)
    THEN [allocated_pages |-> ap, freed_pages |-> fp, double_frees |-> df]
    ELSE LET page_addr == event.page_addr + (i * PAGE_SIZE)
         IN  IF ~DictHas(ap, page_addr)
             THEN IF DictHas(fp, page_addr)
                  THEN process_deallocation_loop_first_free(event, i + 1, ap, fp,
                           Append(df, DoubleFreeError(page_addr, event, "double_free",
                                      DictGet(fp, page_addr).line_number)))
                  ELSE process_deallocation_loop_first_free(event, i + 1, ap,
                           DictSet(fp, page_addr, event),
                           Append(df, DoubleFreeError(page_addr, event,
                                      "free_without_alloc", None)))
             ELSE process_deallocation_loop_first_free(event, i + 1,
                      DictDel(ap, page_addr), DictSet(fp, page_addr, event), df)

\* process_deallocation_loop leaving the allocation record in place
RECURSIVE process_deallocation_loop_no_delete(_, _, _, _, _)
process_deallocation_loop_no_delete(event, i, ap, fp, df) ==
    IF i >= Pow2(event.order)
    THEN [allocated_pages |-> ap, freed_pages |-> fp, double_frees |-> df]
    ELSE LET page_addr == event.page_addr + (i * PAGE_SIZE)
             df2 == IF ~DictHas(ap, page_addr)
                    THEN IF DictHas(fp, page_addr)
                         THEN Append(df, DoubleFreeError(page_addr, event, "double_free",
                                         DictGet(fp, page_addr).line_number))
                         ELSE Append(df, DoubleFreeError(page_addr, event,
                                         "free_without_alloc", None))
                    ELSE df
         IN  process_deallocation_loop_no_delete(event, i + 1, ap,
                                                 DictSet(fp, page_addr, event), df2)

\* process_deallocation_loop testing freed_pages before allocated_pages
RECURSIVE process_deallocation_loop_freed_first(_, _, _, _, _)
process_deallocation_loop_freed_first(event, i, ap, fp, df) ==
    IF i >= Pow2(event.order)
    THEN [allocated_pages |-> ap, freed_pages |-> fp, double_frees |-> df]
    ELSE LET page_addr == event.page_addr + (i * PAGE_SIZE)
             df2 == IF DictHas(fp, page_addr)
                    THEN Append(df, DoubleFreeError(page_addr, event, "double_free",
                                    DictGet(fp, page_addr).line_number))
                    ELSE IF ~DictHas(ap, page_addr)
                         THEN Append(df, DoubleFreeError(page_addr, event,
                                         "free_without_alloc", None))
                         ELSE df
             ap2 == IF ~DictHas(ap, page_addr) THEN ap ELSE DictDel(ap, page_addr)
         IN  process_deallocation_loop_freed_first(event, i + 1, ap2,
                                                   DictSet(fp, page_addr, event), df2)

\* process_deallocation_loop dropping the record of a page it frees normally
RECURSIVE process_deallocation_loop_forget(_, _, _, _, _)
process_deallocation_loop_forget(event, i, ap, fp, df) ==
    IF i >= Pow2(event.order)
    THEN [allocated_pages |-> ap, freed_pages |-> fp, double_frees |-> df]
    ELSE LET page_addr == event.page_addr + (i * PAGE_SIZE)
             df2 == IF ~DictHas(ap, page_addr)
                    THEN IF DictHas(fp, page_addr)
                         THEN Append(df, DoubleFreeError(page_addr, event, "double_free",
                                         DictGet(fp, page_addr).line_number))
                         ELSE Append(df, DoubleFreeError(page_addr, event,
                                         "free_without_alloc", None))
                    ELSE df
             ap2 == IF ~DictHas(ap, page_addr) THEN ap ELSE DictDel(ap, page_addr)
             fp2 == IF ~DictHas(ap, page_addr) THEN DictSet(fp, page_addr, event) ELSE fp
         IN  process_deallocation_loop_forget(event, i + 1, ap2, fp2, df2)

\* process_deallocation_loop deleting only the first page of the block from
\* allocated_pages
RECURSIVE process_deallocation_loop_del_first(_, _, _, _, _)
process_deallocation_loop_del_first(event, i, ap, fp, df) ==
    IF i >= Pow2(event.order)
    THEN [allocated_pages |-> ap, freed_pages |-> fp, double_frees |-> df]
    ELSE LET page_addr == event.page_addr + (i * PAGE_SIZE)
             df2 == IF ~DictHas(ap, page_addr)
                    THEN IF DictHas(fp, page_addr)
                         THEN Append(df, DoubleFreeError(page_addr, event, "double_free",
                                         DictGet(fp, page_addr).line_number))
                         ELSE Append(df, DoubleFreeError(page_addr, event,
                                         "free_without_alloc", None))
                    ELSE df
             ap2 == IF DictHas(ap, page_addr) /\ i = 0 THEN DictDel(ap, page_addr) ELSE ap
         IN  process_deallocation_loop_del_first(event, i + 1, ap2,
                                                 DictSet(fp, page_addr, event), df2)

\* process_deallocation_loop not storing a free that found nothing to free
RECURSIVE process_deallocation_loop_fwa_unstored(_, _, _, _, _)
process_deallocation_loop_fwa_unstored(event, i, ap, fp, df) ==
    IF i >= Pow2(event.order)
    THEN [allocated_pages |-> ap, freed_pages |-> fp, double_frees |-> df]
    ELSE LET page_addr == event.page_addr + (i * PAGE_SIZE)
         IN  IF ~DictHas(ap, page_addr) /\ ~DictHas(fp, page_addr)
             THEN process_deallocation_loop_fwa_unstored(event, i + 1, ap, fp,
                      Append(df, DoubleFreeError(page_addr, event,
                                                 "free_without_alloc", None)))
             ELSE IF ~DictHas(ap, page_addr)
                  THEN process_deallocation_loop_fwa_unstored(event, i + 1, ap,
                           DictSet(fp, page_addr, event),
                           Append(df, DoubleFreeError(page_addr, event, "double_free",
                                      DictGet(fp, page_addr).line_number)))
                  ELSE process_deallocation_loop_fwa_unstored(event, i + 1,
                           DictDel(ap, page_addr), DictSet(fp, page_addr, event), df)

\* process_deallocation_loop freeing a page only through a free of the block
\* that allocated it (same base and order)
RECURSIVE process_deallocation_loop_match_block(_, _, _, _, _)
process_deallocation_loop_match_block(event, i, ap, fp, df) ==
    IF i >= Pow2(event.order)
    THEN [allocated_pages |-> ap, freed_pages |-> fp, double_frees |-> df]
    ELSE LET page_addr == event.page_addr + (i * PAGE_SIZE)
             matches == /\ DictHas(ap, page_addr)
                        /\ DictGet(ap, page_addr).page_addr = event.page_addr
                        /\ DictGet(ap, page_addr).order = event.order
         IN  IF matches
             THEN process_deallocation_loop_match_block(event, i + 1,
                      DictDel(ap, page_addr), DictSet(fp, page_addr, event), df)
             ELSE IF DictHas(ap, page_addr)
                  THEN process_deallocation_loop_match_block(event, i + 1, ap, fp,
                           Append(df, DoubleFreeError(page_addr, event,
                                      "free_without_alloc", None)))
                  ELSE process_deallocation_loop_match_block(event, i + 1, ap,
                           DictSet(fp, page_addr, event),
                           Append(df, IF DictHas(fp, page_addr)
                                      THEN DoubleFreeError(page_addr, event, "double_free",
                                               DictGet(fp, page_addr).line_number)
                                      ELSE DoubleFreeError(page_addr, event,
                                               "free_without_alloc", None)))

\* the loop of _process_deallocation from page i on
RECURSIVE process_deallocation_loop(_, _, _, _, _)
process_deallocation_loop(event, i, ap, fp, df) ==
    IF i >= Pow2(event.order)
    THEN [allocated_pages |-> ap, freed_pages |-> fp, double_frees |-> df]
    ELSE LET page_addr == event.page_addr + (i * PAGE_SIZE)
             df2 == IF ~DictHas(ap, page_addr)
                    THEN IF DictHas(fp, page_addr)
                         THEN Append(df, DoubleFreeError(page_addr, event, "double_free",
                                         DictGet(fp, page_addr).line_number))
                         ELSE Append(df, DoubleFreeError(page_addr, event,
                                         "free_without_alloc", None))
                    ELSE df
             ap2 == IF ~DictHas(ap, page_addr) THEN ap ELSE DictDel(ap, page_addr)
         IN  process_deallocation_loop(event, i + 1, ap2, DictSet(fp, page_addr, event), df2)

\* the scan of _validate_slab_in_slab_page: the index of the first entry of
\* allocated_pages whose range holds obj_addr, 0 when the loop ends without break
RECURSIVE slab_page_scan(_, _, _)
slab_page_scan(ap, obj_addr, i) ==
    IF i > Len(ap) THEN 0
    ELSE LET allocated_page_addr == ap[i].k
             page_event == ap[i].v
             page_count == Pow2(page_event.order)
             page_end == allocated_page_addr + (page_count * PAGE_SIZE)
         IN  IF allocated_page_addr <= obj_addr /\ obj_addr < page_end
             THEN i
             ELSE slab_page_scan(ap, obj_addr, i + 1)

\* _validate_slab_in_slab_page: the validation errors after one slab allocation
validate_slab_in_slab_page(event, ap, errors) ==
    LET page_addr == (event.obj_addr \div PAGE_SIZE) * PAGE_SIZE
        hit == slab_page_scan(ap, event.obj_addr, 1)
        page_found == hit # 0
        page_flags == IF page_found THEN ap[hit].v.flags ELSE None
        page_has_slab_flag == page_found /\ BitAnd(ap[hit].v.flags, PAGE_FLAG_SLAB) # 0
    IN  IF ~page_found
        THEN Append(errors, SlabPageValidationError(event, page_addr, None,
                                                    "page_not_allocated"))
        ELSE IF ~page_has_slab_flag
        THEN Append(errors, SlabPageValidationError(event, page_addr, page_flags,
                                                    "slab_not_in_slab_page"))
        ELSE errors

\* process_slab_allocation_check keyed by cache name and object address
process_slab_allocation_check_same_cache(event, aso, sda) ==
    IF DictHas(aso, event.obj_addr)
       /\ DictGet(aso, event.obj_addr).cache_name = event.cache_name
    THEN Append(sda, SlabDoubleAllocationError(DictGet(aso, event.obj_addr), event))
    ELSE sda

\* the double-allocation check of _process_slab_allocation
process_slab_allocation_check(event, aso, sda) ==
    IF DictHas(aso, event.obj_addr)
    THEN Append(sda, SlabDoubleAllocationError(DictGet(aso, event.obj_addr), event))
    ELSE sda

\* process_slab_deallocation_check without the test of freed_slab_objs
process_slab_deallocation_check_no_freed_test(event, aso, fso, sdf) ==
    IF ~DictHas(aso, event.obj_addr)
    THEN Append(sdf, SlabDoubleFreeError(event, "free_without_alloc", None))
    ELSE sdf

\* process_slab_deallocation_check comparing the cache of the free with the
\* cache of the allocation
process_slab_deallocation_check_cache_compared(event, aso, fso, sdf) ==
    IF ~DictHas(aso, event.obj_addr)
    THEN IF DictHas(fso, event.obj_addr)
         THEN Append(sdf, SlabDoubleFreeError(event, "double_free",
                          DictGet(fso, event.obj_addr).line_number))
         ELSE Append(sdf, SlabDoubleFreeError(event, "free_without_alloc", None))
    ELSE IF DictGet(aso, event.obj_addr).cache_ptr # event.cache_ptr
         THEN Append(sdf, SlabDoubleFreeError(event, "free_without_alloc", None))
         ELSE sdf

\* the branch of _process_slab_deallocation
process_slab_deallocation_check(event, aso, fso, sdf) ==
    IF ~DictHas(aso, event.obj_addr)
    THEN IF DictHas(fso, event.obj_addr)
         THEN Append(sdf, SlabDoubleFreeError(event, "double_free",
                          DictGet(fso, event.obj_addr).line_number))
         ELSE Append(sdf, SlabDoubleFreeError(event, "free_without_alloc", None))
    ELSE sdf

\* _process_allocation
process_allocation(event) ==
    LET r == process_allocation_loop(event, 0, allocated_pages, double_allocations)
    IN  /\ page_range_validation_errors' =
              validate_page_range(event, buddy_init_event, page_range_validation_errors)
        /\ allocated_pages' = r.allocated_pages
        /\ double_allocations' = r.double_allocations
        /\ allocation_stats' = CounterAdd(allocation_stats, event.order, 1)
        /\ flag_stats' = CounterAdd(flag_stats, event.flags, 1)
        /\ order_stats' = CounterAdd(order_stats, event.order, Pow2(event.order))
        /\ UNCHANGED << freed_pages, double_frees, deallocation_stats >>

\* _process_deallocation
process_deallocation(event) ==
    LET r == process_deallocation_loop(event, 0, allocated_pages, freed_pages, double_frees)
    IN  /\ allocated_pages' = r.allocated_pages
        /\ freed_pages' = r.freed_pages
        /\ double_frees' = r.double_frees
        /\ deallocation_stats' = CounterAdd(deallocation_stats, event.order, 1)
        /\ UNCHANGED << double_allocations, page_range_validation_errors,
                        allocation_stats, flag_stats, order_stats >>

\* process_slab_allocation dropping an object that fails the slab-page validation
process_slab_allocation_reject_invalid(event) ==
    LET errors == validate_slab_in_slab_page(event, allocated_pages,
                                             slab_page_validation_errors)
    IN  /\ slab_page_validation_errors' = errors
        /\ slab_double_allocations' =
               process_slab_allocation_check(event, allocated_slab_objs,
                                             slab_double_allocations)
        /\ allocated_slab_objs' =
               IF errors # slab_page_validation_errors THEN allocated_slab_objs
               ELSE DictSet(allocated_slab_objs, event.obj_addr, event)
        /\ slab_allocation_stats' = CounterAdd(slab_allocation_stats, event.cache_name, 1)
        /\ slab_size_stats' = CounterAdd(slab_size_stats, event.obj_size, 1)
        /\ UNCHANGED << freed_slab_objs, slab_double_frees, slab_deallocation_stats >>

\* _process_slab_allocation
process_slab_allocation(event) ==
    /\ slab_page_validation_errors' =
           validate_slab_in_slab_page(event, allocated_pages, slab_page_validation_errors)
    /\ slab_double_allocations' =
           process_slab_allocation_check(event, allocated_slab_objs, slab_double_allocations)
    /\ allocated_slab_objs' = DictSet(allocated_slab_objs, event.obj_addr, event)
    /\ slab_allocation_stats' = CounterAdd(slab_allocation_stats, event.cache_name, 1)
    /\ slab_size_stats' = CounterAdd(slab_size_stats, event.obj_size, 1)
    /\ UNCHANGED << freed_slab_objs, slab_double_frees, slab_deallocation_stats >>

\* _process_slab_deallocation
process_slab_deallocation(event) ==
    /\ slab_double_frees' =
           process_slab_deallocation_check(event, allocated_slab_objs, freed_slab_objs,
                                           slab_double_frees)
    /\ allocated_slab_objs' =
           IF ~DictHas(allocated_slab_objs, event.obj_addr) THEN allocated_slab_objs
           ELSE DictDel(allocated_slab_objs, event.obj_addr)
    /\ freed_slab_objs' = DictSet(freed_slab_objs, event.obj_addr, event)
    /\ slab_deallocation_stats' = CounterAdd(slab_deallocation_stats, event.cache_name, 1)
    /\ UNCHANGED << slab_double_allocations, slab_page_validation_errors,
                    slab_allocation_stats, slab_size_stats >>

(***************************************************************************)
(* DoubleAllocAnalyzer: the handlers of double_alloc_analyzer.py.          *)
(***************************************************************************)

\* the loop of _check_allocation from page i on
RECURSIVE check_allocation_loop(_, _, _, _)
check_allocation_loop(event, i, ap, da) ==
    IF i >= Pow2(event.order)
    THEN [allocated_pages |-> ap, double_allocations |-> da]
    ELSE LET page_addr == event.page_addr + (i * PAGE_SIZE)
             da2 == IF DictHas(ap, page_addr)
                    THEN Append(da, DoubleAllocationError(page_addr, DictGet(ap, page_addr), event))
                    ELSE da
         IN  check_allocation_loop(event, i + 1, DictSet(ap, page_addr, event), da2)

\* the loop of _check_deallocation from page i on
RECURSIVE check_deallocation_loop(_, _, _, _, _)
check_deallocation_loop(event, i, ap, fp, df) ==
    IF i >= Pow2(event.order)
    THEN [allocated_pages |-> ap, freed_pages |-> fp, double_frees |-> df]
    ELSE LET page_addr == event.page_addr + (i * PAGE_SIZE)
             df2 == IF ~DictHas(ap, page_addr)
                    THEN IF DictHas(fp, page_addr)
                         THEN Append(df, DoubleFreeError(page_addr, event, "double_free",
                                         DictGet(fp, page_addr).line_number))
                         ELSE Append(df, DoubleFreeError(page_addr, event,
                                         "free_without_alloc", None))
                    ELSE df
             ap2 == IF ~DictHas(ap, page_addr) THEN ap ELSE DictDel(ap, page_addr)
         IN  check_deallocation_loop(event, i + 1, ap2, DictSet(fp, page_addr, event), df2)

\* _check_allocation
check_allocation(event) ==
    LET r == check_allocation_loop(event, 0, d_allocated_pages, d_double_allocations)
    IN  /\ d_allocated_pages' = r.allocated_pages
        /\ d_double_allocations' = r.double_allocations
        /\ UNCHANGED << d_freed_pages, d_double_frees >>

\* _check_deallocation
check_deallocation(event) ==
    LET r == check_deallocation_loop(event, 0, d_allocated_pages, d_freed_pages,
                                     d_double_frees)
    IN  /\ d_allocated_pages' = r.allocated_pages
        /\ d_freed_pages' = r.freed_pages
        /\ d_double_frees' = r.double_frees
        /\ UNCHANGED d_double_allocations

\* _check_slab_allocation
check_slab_allocation(event) ==
    /\ d_slab_double_allocations' =
           IF DictHas(d_allocated_slab_objs, event.obj_addr)
           THEN Append(d_slab_double_allocations,
                       SlabDoubleAllocationError(DictGet(d_allocated_slab_objs, event.obj_addr),
                                                 event))
           ELSE d_slab_double_allocations
    /\ d_allocated_slab_objs' = DictSet(d_allocated_slab_objs, event.obj_addr, event)
    /\ UNCHANGED << d_freed_slab_objs, d_slab_double_frees >>

\* _check_slab_deallocation
check_slab_deallocation(event) ==
    /\ d_slab_double_frees' =
           IF ~DictHas(d_allocated_slab_objs, event.obj_addr)
           THEN IF DictHas(d_freed_slab_objs, event.obj_addr)
                THEN Append(d_slab_double_frees,
                            SlabDoubleFreeError(event, "double_free",
                                DictGet(d_freed_slab_objs, event.obj_addr).line_number))
                ELSE Append(d_slab_double_frees,
                            SlabDoubleFreeError(event, "free_without_alloc", None))
           ELSE d_slab_double_frees
    /\ d_allocated_slab_objs' =
           IF ~DictHas(d_allocated_slab_objs, event.obj_addr) THEN d_allocated_slab_objs
           ELSE DictDel(d_allocated_slab_objs, event.obj_addr)
    /\ d_freed_slab_objs' = DictSet(d_freed_slab_objs, event.obj_addr, event)
    /\ UNCHANGED d_slab_double_allocations

(***************************************************************************)
(* parse_log_file: one step reads one line of the log.  The lines are the  *)
(* five kinds page_log_analyzer.py recognises (slab lines in its           *)
(* "slab_alloc: cache" form, which DoubleAllocAnalyzer's patterns          *)
(* "slab_alloc\(\): cache" do not match), the slab lines in the form       *)
(* DoubleAllocAnalyzer recognises, and lines that match no pattern.        *)
(***************************************************************************)
AnalyzersInit ==
    /\ line_num = 0
    /\ events = << >> /\ slab_events = << >> /\ buddy_init_event = << >>
    /\ allocated_pages = << >> /\ freed_pages = << >>
    /\ allocated_slab_objs = << >> /\ freed_slab_objs = << >>
    /\ allocation_stats = EmptyCounter /\ deallocation_stats = EmptyCounter
    /\ flag_stats = EmptyCounter /\ order_stats = EmptyCounter
    /\ slab_allocation_stats = EmptyCounter /\ slab_deallocation_stats = EmptyCounter
    /\ slab_size_stats = EmptyCounter
    /\ double_allocations = << >> /\ double_frees = << >>
    /\ slab_double_allocations = << >> /\ slab_double_frees = << >>
    /\ slab_page_validation_errors = << >> /\ page_range_validation_errors = << >>
    /\ d_events = << >> /\ d_slab_events = << >>
    /\ d_allocated_pages = << >> /\ d_freed_pages = << >>
    /\ d_double_allocations = << >> /\ d_double_frees = << >>
    /\ d_allocated_slab_objs = << >> /\ d_freed_slab_objs = << >>
    /\ d_slab_double_allocations = << >> /\ d_slab_double_frees = << >>
    /\ exit_status = None /\ d_exit_status = None
    /\ lines = << >> /\ unread = << >>

\* embed_ksymbols.py is not run
EmbedIdle == embed_args = << >> /\ kernel_file = << >> /\ embed_exit = None

EmbedUnchanged == UNCHANGED evars

\* no list is being printed
ListIdle ==
    /\ head_list = << >> /\ walk_pc = "idle"
    /\ steps = 0 /\ next_ptr = None /\ cycle_guard = {}
    /\ nodes = << >> /\ count = 0 /\ truncated = FALSE

ListUnchanged == UNCHANGED lvars

Init == AnalyzersInit /\ EmbedIdle /\ ListIdle

\* the loop over the lines is still running in both analyzers
Running == exit_status = None /\ d_exit_status = None

ExitUnchanged == UNCHANGED << exit_status, d_exit_status, unread >>

PageUnchanged ==
    UNCHANGED << events, allocated_pages, freed_pages, double_allocations, double_frees,
                 page_range_validation_errors,
                 allocation_stats, deallocation_stats, flag_stats, order_stats >>

DSlabUnchanged ==
    UNCHANGED << d_slab_events, d_allocated_slab_objs, d_freed_slab_objs,
                 d_slab_double_allocations, d_slab_double_frees >>

\* a line of the file: its kind and the fields its pattern captures
Line(kind, fields) == [kind |-> kind, fields |-> fields]

SlabUnchanged ==
    UNCHANGED << slab_events, allocated_slab_objs, freed_slab_objs,
                 slab_double_allocations, slab_double_frees, slab_page_validation_errors,
                 slab_allocation_stats, slab_deallocation_stats, slab_size_stats >>

\* BuddyInitLine keeping the first arena observed
BuddyInitLine_first_wins(range) ==
    /\ line_num < MaxLines /\ Running
    /\ ExitUnchanged /\ EmbedUnchanged /\ ListUnchanged
    /\ line_num' = line_num + 1
    /\ buddy_init_event' =
           IF buddy_init_event = << >>
           THEN << BuddyInitEvent(range.start, range.end, line_num + 1) >>
           ELSE buddy_init_event
    /\ PageUnchanged /\ SlabUnchanged
    /\ UNCHANGED dvars
    /\ lines' = Append(lines, Line("page_buddy_init", << range.start, range.end >>))

\* the range errors after validating again the allocations that own ap[i..]
RECURSIVE revalidate_allocated(_, _, _, _)
revalidate_allocated(ap, i, buddy, errors) ==
    IF i > Len(ap) THEN errors
    ELSE revalidate_allocated(ap, i + 1, buddy,
                              validate_page_range(ap[i].v, buddy, errors))

\* BuddyInitLine validating the pages allocated so far against the new arena
BuddyInitLine_revalidating(range) ==
    /\ line_num < MaxLines /\ Running
    /\ ExitUnchanged /\ EmbedUnchanged /\ ListUnchanged
    /\ line_num' = line_num + 1
    /\ buddy_init_event' = << BuddyInitEvent(range.start, range.end, line_num + 1) >>
    /\ page_range_validation_errors' =
           revalidate_allocated(allocated_pages, 1, buddy_init_event',
                                page_range_validation_errors)
    /\ UNCHANGED << events, allocated_pages, freed_pages, double_allocations, double_frees,
                    allocation_stats, deallocation_stats, flag_stats, order_stats >>
    /\ SlabUnchanged
    /\ UNCHANGED dvars
    /\ lines' = Append(lines, Line("page_buddy_init", << range.start, range.end >>))

\* a "page_buddy_init(): buddy pages from .. to .." line
BuddyInitLine(range) ==
    /\ line_num < MaxLines /\ Running
    /\ ExitUnchanged /\ EmbedUnchanged /\ ListUnchanged
    /\ line_num' = line_num + 1
    /\ buddy_init_event' = << BuddyInitEvent(range.start, range.end, line_num + 1) >>
    /\ PageUnchanged /\ SlabUnchanged
    /\ UNCHANGED dvars
    /\ lines' = Append(lines, Line("page_buddy_init", << range.start, range.end >>))

\* a "page_alloc: order .., flags .., page .." line
PageAllocLine(order, flags, page_addr) ==
    /\ line_num < MaxLines /\ Running
    /\ ExitUnchanged /\ EmbedUnchanged /\ ListUnchanged
    /\ line_num' = line_num + 1
    /\ LET event == PageEvent("alloc", order, flags, page_addr, line_num + 1)
       IN  /\ events' = Append(events, event)
           /\ process_allocation(event)
           /\ d_events' = Append(d_events, event)
           /\ check_allocation(event)
    /\ SlabUnchanged /\ DSlabUnchanged
    /\ UNCHANGED buddy_init_event
    /\ lines' = Append(lines, Line("page_alloc", << order, flags, page_addr >>))

\* PageFreeLine releasing the slab objects that lie on the freed pages
PageFreeLine_releasing_slab(order, flags, page_addr) ==
    /\ line_num < MaxLines /\ Running
    /\ ExitUnchanged /\ EmbedUnchanged /\ ListUnchanged
    /\ line_num' = line_num + 1
    /\ LET event == PageEvent("free", order, flags, page_addr, line_num + 1)
           end_addr == page_addr + (Pow2(order) * PAGE_SIZE)
       IN  /\ events' = Append(events, event)
           /\ process_deallocation(event)
           /\ d_events' = Append(d_events, event)
           /\ check_deallocation(event)
           /\ allocated_slab_objs' =
                  SelectSeq(allocated_slab_objs,
                            LAMBDA o : ~(page_addr <= o.k /\ o.k < end_addr))
    /\ UNCHANGED << slab_events, freed_slab_objs,
                    slab_double_allocations, slab_double_frees,
                    slab_page_validation_errors,
                    slab_allocation_stats, slab_deallocation_stats, slab_size_stats >>
    /\ DSlabUnchanged
    /\ UNCHANGED buddy_init_event
    /\ lines' = Append(lines, Line("page_free", << order, flags, page_addr >>))

\* a "page_free: order .., flags .., page .." line
PageFreeLine(order, flags, page_addr) ==
    /\ line_num < MaxLines /\ Running
    /\ ExitUnchanged /\ EmbedUnchanged /\ ListUnchanged
    /\ line_num' = line_num + 1
    /\ LET event == PageEvent("free", order, flags, page_addr, line_num + 1)
       IN  /\ events' = Append(events, event)
           /\ process_deallocation(event)
           /\ d_events' = Append(d_events, event)
           /\ check_deallocation(event)
    /\ SlabUnchanged /\ DSlabUnchanged
    /\ UNCHANGED buddy_init_event
    /\ lines' = Append(lines, Line("page_free", << order, flags, page_addr >>))

\* a "slab_alloc: cache ..(..), obj .., size: .." line
SlabAllocLine(cache, obj_addr) ==
    /\ line_num < MaxLines /\ Running
    /\ ExitUnchanged /\ EmbedUnchanged /\ ListUnchanged
    /\ line_num' = line_num + 1
    /\ LET event == SlabEvent("alloc", cache.name, cache.ptr, obj_addr, cache.size,
                              line_num + 1)
       IN  /\ slab_events' = Append(slab_events, event)
           /\ process_slab_allocation(event)
    /\ PageUnchanged
    /\ UNCHANGED << buddy_init_event, dvars >>
    /\ lines' = Append(lines, Line("slab_alloc:", << cache.name, cache.ptr, obj_addr, cache.size >>))

\* a "slab_free: cache ..(..), obj .., size: .." line
SlabFreeLine(cache, obj_addr) ==
    /\ line_num < MaxLines /\ Running
    /\ ExitUnchanged /\ EmbedUnchanged /\ ListUnchanged
    /\ line_num' = line_num + 1
    /\ LET event == SlabEvent("free", cache.name, cache.ptr, obj_addr, cache.size,
                              line_num + 1)
       IN  /\ slab_events' = Append(slab_events, event)
           /\ process_slab_deallocation(event)
    /\ PageUnchanged
    /\ UNCHANGED << buddy_init_event, dvars >>
    /\ lines' = Append(lines, Line("slab_free:", << cache.name, cache.ptr, obj_addr, cache.size >>))

\* a "slab_alloc(): cache ..(..), obj .., size: .." line, the form the patterns of
\* DoubleAllocAnalyzer match and those of PageAllocAnalyzer do not
SlabAllocParenLine(cache, obj_addr) ==
    /\ line_num < MaxLines /\ Running
    /\ ExitUnchanged /\ EmbedUnchanged /\ ListUnchanged
    /\ line_num' = line_num + 1
    /\ LET event == SlabEvent("alloc", cache.name, cache.ptr, obj_addr, cache.size,
                              line_num + 1)
       IN  /\ d_slab_events' = Append(d_slab_events, event)
           /\ check_slab_allocation(event)
    /\ UNCHANGED << d_events, d_allocated_pages, d_freed_pages,
                    d_double_allocations, d_double_frees >>
    /\ UNCHANGED pvars
    /\ lines' = Append(lines, Line("slab_alloc():", << cache.name, cache.ptr, obj_addr, cache.size >>))

\* a "slab_free(): cache ..(..), obj .., size: .." line
SlabFreeParenLine(cache, obj_addr) ==
    /\ line_num < MaxLines /\ Running
    /\ ExitUnchanged /\ EmbedUnchanged /\ ListUnchanged
    /\ line_num' = line_num + 1
    /\ LET event == SlabEvent("free", cache.name, cache.ptr, obj_addr, cache.size,
                              line_num + 1)
       IN  /\ d_slab_events' = Append(d_slab_events, event)
           /\ check_slab_deallocation(event)
    /\ UNCHANGED << d_events, d_allocated_pages, d_freed_pages,
                    d_double_allocations, d_double_frees >>
    /\ UNCHANGED pvars
    /\ lines' = Append(lines, Line("slab_free():", << cache.name, cache.ptr, obj_addr, cache.size >>))

\* a line that matches none of the patterns
OtherLine ==
    /\ line_num < MaxLines /\ Running
    /\ ExitUnchanged /\ EmbedUnchanged /\ ListUnchanged
    /\ line_num' = line_num + 1
    /\ PageUnchanged /\ SlabUnchanged
    /\ UNCHANGED << buddy_init_event, dvars >>
    /\ lines' = Append(lines, Line("other", << >>))

\* slab lines in the two forms: "slab_alloc:" and "slab_free:" match the patterns
\* of PageAllocAnalyzer, "slab_alloc():" and "slab_free():" those of
\* DoubleAllocAnalyzer
SlabForms == {"slab_alloc:", "slab_free:"}
SlabParenForms == {"slab_alloc():", "slab_free():"}

\* what the file may hold after a line: nothing, or one more page allocation
Rests == { << >>, << Line("page_alloc", << 0, 0, 1 * PAGE_SIZE >>) >> }

\* a slab line whose cache handle "(...)" is not a hexadecimal number: the
\* pattern matches, int(handle, 16) raises ValueError before the event is
\* built, "except Exception" prints the error and calls sys.exit(1).  The line
\* keeps None as its handle.  The analyzer whose pattern matches exits; the run
\* of the other one is not followed further (to it the line is an "other" line).
BadHandleLine(form, cache, obj_addr, rest) ==
    /\ line_num < MaxLines /\ Running
    /\ Len(rest) <= MaxLines - (line_num + 1)
    /\ line_num' = line_num + 1
    /\ exit_status' = IF form \in SlabForms THEN 1 ELSE None
    /\ d_exit_status' = IF form \in SlabParenForms THEN 1 ELSE None
    /\ lines' = Append(lines, Line(form, << cache.name, None, obj_addr, cache.size >>))
    /\ unread' = rest
    /\ UNCHANGED << pvars, dvars >>
    /\ EmbedUnchanged /\ ListUnchanged

\* the file cannot be read further: open() fails (FileNotFoundError,
\* PermissionError) before the first line, or the next chunk of the file cannot
\* be read or decoded (OSError, UnicodeDecodeError) after the lines of the
\* earlier chunks were processed.  Both analyzers print the error and call
\* sys.exit(1); the lines from the unreadable one on stay unread.
ReadError(rest) ==
    /\ line_num < MaxLines /\ Running
    /\ Len(rest) <= MaxLines - (line_num + 1)
    /\ exit_status' = 1 /\ d_exit_status' = 1
    /\ unread' = << Line("unreadable", << >>) >> \o rest
    /\ UNCHANGED << line_num, pvars, dvars, lines >>
    /\ EmbedUnchanged /\ ListUnchanged

Next ==
    \/ \E range \in BuddyRanges : BuddyInitLine(range)
    \/ \E order \in Orders, flags \in AllocFlags, page_addr \in PageAddrs :
          PageAllocLine(order, flags, page_addr)
    \/ \E order \in Orders, flags \in FreeFlags, page_addr \in PageAddrs :
          PageFreeLine(order, flags, page_addr)
    \/ \E cache \in Caches, obj_addr \in ObjAddrs : SlabAllocLine(cache, obj_addr)
    \/ \E cache \in Caches, obj_addr \in ObjAddrs : SlabFreeLine(cache, obj_addr)
    \/ \E cache \in Caches, obj_addr \in ObjAddrs : SlabAllocParenLine(cache, obj_addr)
    \/ \E cache \in Caches, obj_addr \in ObjAddrs : SlabFreeParenLine(cache, obj_addr)
    \/ \E form \in SlabForms \cup SlabParenForms, rest \in Rests :
          BadHandleLine(form, CHOOSE c \in Caches : c.name = "kmalloc",
                        2 * PAGE_SIZE + 64, rest)
    \/ \E rest \in Rests : ReadError(rest)
    \/ OtherLine

Spec == Init /\ [][Next]_vars

(***************************************************************************)
(* Page lines with out-of-shape fields: a base that is not a multiple of   *)
(* the page size, a block that ends beyond the address space.  Python      *)
(* integers have no width, so no address wraps; the address space of       *)
(* 2^64 bytes is scaled to 2^AddressBits.                                  *)
(***************************************************************************)
AddressBits == 16
AddressSpace == Pow2(AddressBits)

ShapeAddrs == {1 * PAGE_SIZE, 1 * PAGE_SIZE + 2048, AddressSpace - PAGE_SIZE}

NextShape ==
    \/ \E range \in BuddyRanges : BuddyInitLine(range)
    \/ \E order \in Orders, page_addr \in ShapeAddrs : PageAllocLine(order, 0, page_addr)
    \/ \E order \in Orders, page_addr \in ShapeAddrs : PageFreeLine(order, 0, page_addr)

SpecShape == Init /\ [][NextShape]_vars

(***************************************************************************)
(* Logs of buddy and page lines (and lines that match nothing), read to    *)
(* the end or until the read fails: the page side of both analyzers.       *)
(***************************************************************************)
NextPages ==
    \/ \E range \in BuddyRanges : BuddyInitLine(range)
    \/ \E order \in Orders, flags \in AllocFlags, page_addr \in PageAddrs :
          PageAllocLine(order, flags, page_addr)
    \/ \E order \in Orders, flags \in FreeFlags, page_addr \in PageAddrs :
          PageFreeLine(order, flags, page_addr)
    \/ \E rest \in Rests : ReadError(rest)
    \/ OtherLine

SpecPages == Init /\ [][NextPages]_vars

(***************************************************************************)
(* Logs whose slab lines carry both forms, "slab_alloc(): ..." and         *)
(* "slab_alloc: ..." with the same fields on one line: the patterns are    *)
(* applied with re.search, so each analyzer finds its own form and both    *)
(* build the same slab event with the same line number.                    *)
(***************************************************************************)
SlabAllocBothLine(cache, obj_addr) ==
    /\ line_num < MaxLines /\ Running
    /\ ExitUnchanged /\ EmbedUnchanged /\ ListUnchanged
    /\ line_num' = line_num + 1
    /\ LET event == SlabEvent("alloc", cache.name, cache.ptr, obj_addr, cache.size,
                              line_num + 1)
       IN  /\ slab_events' = Append(slab_events, event)
           /\ process_slab_allocation(event)
           /\ d_slab_events' = Append(d_slab_events, event)
           /\ check_slab_allocation(event)
    /\ PageUnchanged
    /\ UNCHANGED << d_events, d_allocated_pages, d_freed_pages,
                    d_double_allocations, d_double_frees >>
    /\ UNCHANGED buddy_init_event
    /\ lines' = Append(lines, Line("slab_alloc(): slab_alloc:",
                                   << cache.name, cache.ptr, obj_addr, cache.size >>))

SlabFreeBothLine(cache, obj_addr) ==
    /\ line_num < MaxLines /\ Running
    /\ ExitUnchanged /\ EmbedUnchanged /\ ListUnchanged
    /\ line_num' = line_num + 1
    /\ LET event == SlabEvent("free", cache.name, cache.ptr, obj_addr, cache.size,
                              line_num + 1)
       IN  /\ slab_events' = Append(slab_events, event)
           /\ process_slab_deallocation(event)
           /\ d_slab_events' = Append(d_slab_events, event)
           /\ check_slab_deallocation(event)
    /\ PageUnchanged
    /\ UNCHANGED << d_events, d_allocated_pages, d_freed_pages,
                    d_double_allocations, d_double_frees >>
    /\ UNCHANGED buddy_init_event
    /\ lines' = Append(lines, Line("slab_free(): slab_free:",
                                   << cache.name, cache.ptr, obj_addr, cache.size >>))

NextSameEvents ==
    \/ \E range \in BuddyRanges : BuddyInitLine(range)
    \/ \E order \in Orders, flags \in AllocFlags, page_addr \in PageAddrs :
          PageAllocLine(order, flags, page_addr)
    \/ \E order \in Orders, flags \in FreeFlags, page_addr \in PageAddrs :
          PageFreeLine(order, flags, page_addr)
    \/ \E cache \in Caches, obj_addr \in ObjAddrs : SlabAllocBothLine(cache, obj_addr)
    \/ \E cache \in Caches, obj_addr \in ObjAddrs : SlabFreeBothLine(cache, obj_addr)

SpecSameEvents == Init /\ [][NextSameEvents]_vars

(***************************************************************************)
(* scripts/embed_ksymbols.py: one run on a kernel file that holds a        *)
(* placeholder of zeros, with a symbols file.                              *)
(***************************************************************************)
KernelLen == 5
MaxPlaceholder == 2
MaxSym == 3

\* the placeholders a kernel file of KernelLen bytes can hold: size bytes from
\* the 0-based offset on, with bytes before and after
Placeholders ==
    {ph \in [offset : 1..(KernelLen - 1), size : 1..MaxPlaceholder] :
        ph.offset + ph.size <= KernelLen}

\* the kernel file: zeros in the placeholder, other bytes elsewhere
KernelWith(ph) ==
    [i \in 1..KernelLen |->
        IF ph.offset < i /\ i <= ph.offset + ph.size THEN 0 ELSE i]

\* the symbols file: n bytes, none of them zero
SymData(n) == [j \in 1..n |-> 255]

\* mode: --elf or --flat; section_info: what find_elf_section returns for
\* ".ksymbols" (None: not found, else the placeholder's offset and size);
\* flat_offset: the offset argument (None: not given)
EmbedInputs ==
    UNION { { [mode |-> "elf", kernel |-> KernelWith(ph), placeholder |-> ph,
               section_info |-> si, flat_offset |-> None, sym_data |-> SymData(n)]
                 : si \in {<< >>, << ph >>} }
            \cup
            { [mode |-> "flat", kernel |-> KernelWith(ph), placeholder |-> ph,
               section_info |-> << >>, flat_offset |-> fo, sym_data |-> SymData(n)]
                 : fo \in {None, ph.offset} }
          : ph \in Placeholders, n \in 0..MaxSym }

\* f.seek(pos); f.write(data) on a file opened "r+b": the bytes from pos on are
\* overwritten and the file grows when data runs past its end
file_write(file, pos, data) ==
    LET end == IF pos + Len(data) > Len(file) THEN pos + Len(data) ELSE Len(file)
    IN  [i \in 1..end |->
            IF pos < i /\ i <= pos + Len(data) THEN data[i - pos] ELSE file[i]]

zeros(n) == [j \in 1..n |-> 0]

\* main, mode == 'elf'
EmbedElf ==
    /\ embed_exit = None /\ embed_args # << >>
    /\ embed_args.mode = "elf"
    /\ LET sym_data == embed_args.sym_data
           sym_size == Len(sym_data)
       IN  IF embed_args.section_info = << >>
           THEN embed_exit' = 1 /\ UNCHANGED kernel_file
           ELSE LET offset == embed_args.section_info[1].offset
                    size == embed_args.section_info[1].size
                IN  IF sym_size > size
                    THEN embed_exit' = 1 /\ UNCHANGED kernel_file
                    ELSE /\ kernel_file' =
                               LET written == file_write(kernel_file, offset, sym_data)
                               IN  IF sym_size < size
                                   THEN file_write(written, offset + sym_size,
                                                   zeros(size - sym_size))
                                   ELSE written
                         /\ embed_exit' = 0
    /\ UNCHANGED << avars, embed_args, lvars >>

\* main, mode == 'flat'
EmbedFlat ==
    /\ embed_exit = None /\ embed_args # << >>
    /\ embed_args.mode = "flat"
    /\ LET flat_offset == embed_args.flat_offset
           file_size == Len(kernel_file)
       IN  IF flat_offset = None
           THEN embed_exit' = 1 /\ UNCHANGED kernel_file
           ELSE IF flat_offset >= file_size
                THEN embed_exit' = 1 /\ UNCHANGED kernel_file
                ELSE /\ kernel_file' = file_write(kernel_file, flat_offset,
                                                  embed_args.sym_data)
                     /\ embed_exit' = 0
    /\ UNCHANGED << avars, embed_args, lvars >>

InitEmbed ==
    /\ AnalyzersInit
    /\ embed_args \in EmbedInputs
    /\ kernel_file = embed_args.kernel
    /\ embed_exit = None
    /\ ListIdle

NextEmbed == EmbedElf \/ EmbedFlat

SpecEmbed == InitEmbed /\ [][NextEmbed]_vars

(***************************************************************************)
(* gdb_list_printer.py: ListNodePrinter._collect_nodes walking one list.   *)
(* The debuggee's memory is a chain of nodes behind the head; gdb values   *)
(* are fetched lazily, so an unreadable node shows when its next pointer   *)
(* is converted, or at once when dereference() itself fails.               *)
(***************************************************************************)
_MAX_WALK == 512
_SAMPLE_LIMIT == 8
MaxNodes == 513

\* the address of node i of the chain; node 0 is the head
NodeAddr(i) == 16 * (i + 1)
NodeIndex(addr) == (addr \div 16) - 1

ListSizes ==
    {0, 1, 2, _SAMPLE_LIMIT - 1, _SAMPLE_LIMIT, _SAMPLE_LIMIT + 1,
     _MAX_WALK - 1, _MAX_WALK, MaxNodes}

\* the lists: n nodes behind the head; the next pointer of the last node leads
\* to the head (circular), is null, leads back to node m (a cycle that misses
\* the head), or leads to a node that cannot be read; a head that cannot be read
ListShapes ==
    { [kind |-> k, n |-> n, m |-> 0, eager |-> FALSE] :
          k \in {"circular", "null"}, n \in ListSizes }
    \cup UNION { { [kind |-> "cycle", n |-> n, m |-> m, eager |-> FALSE] : m \in {1, n} } :
                  n \in ListSizes \ {0} }
    \cup { [kind |-> "unreadable", n |-> n, m |-> 0, eager |-> e] :
          n \in ListSizes, e \in BOOLEAN }
    \cup { [kind |-> "unreadable_head", n |-> 0, m |-> 0, eager |-> e] : e \in BOOLEAN }

\* node i of the list can be read from memory
Readable(list, i) == list.kind # "unreadable_head" /\ i <= list.n

\* the next field stored in node i
NextField(list, i) ==
    IF i < list.n THEN NodeAddr(i + 1)
    ELSE IF list.kind = "circular" THEN NodeAddr(0)
    ELSE IF list.kind = "null" THEN 0
    ELSE IF list.kind = "cycle" THEN NodeAddr(list.m)
    ELSE NodeAddr(list.n + 1)

\* _node_value: None when dereference() raises, else the (lazy) node
node_value(list, node_ptr) ==
    IF node_ptr = None THEN None
    ELSE IF list.eager /\ ~Readable(list, NodeIndex(node_ptr)) THEN None
    ELSE node_ptr

\* node_val['next']: a pointer whose conversion fails when the node is unreadable
next_of(list, node_val) ==
    IF Readable(list, NodeIndex(node_val)) THEN NextField(list, NodeIndex(node_val))
    ELSE None

\* _addr: int(value), None when the conversion raises
addr_of(value) == IF value = None THEN None ELSE value

\* the walk that never finds an address in the guard
in_cycle_guard_never(addr, guard) == FALSE

\* addr in cycle_guard
in_cycle_guard(addr, guard) == addr \in guard

\* _collect_nodes up to the loop
CollectStart ==
    /\ walk_pc = "start"
    /\ LET head_ptr == NodeAddr(0)
           head_val == node_value(head_list, head_ptr)
       IN  IF head_val = None
           THEN /\ walk_pc' = "done"
                /\ count' = 0 /\ nodes' = << >> /\ truncated' = FALSE
                /\ UNCHANGED << steps, next_ptr, cycle_guard >>
           ELSE /\ cycle_guard' = (IF addr_of(head_ptr) # None THEN {addr_of(head_ptr)}
                                   ELSE {})
                /\ nodes' = << >> /\ count' = 0 /\ truncated' = FALSE
                /\ next_ptr' = next_of(head_list, head_val)
                /\ steps' = 0
                /\ walk_pc' = "loop"
    /\ UNCHANGED << avars, evars, head_list >>

\* one iteration of "while steps < _MAX_WALK"
LoopStep ==
    /\ walk_pc = "loop" /\ steps < _MAX_WALK
    /\ steps' = steps + 1
    /\ LET addr == addr_of(next_ptr)
           head_addr == addr_of(NodeAddr(0))
       IN  IF addr = None
           THEN /\ truncated' = TRUE /\ walk_pc' = "done"
                /\ UNCHANGED << next_ptr, cycle_guard, nodes, count >>
           ELSE IF addr = 0
           THEN /\ truncated' = (count # 0) /\ walk_pc' = "done"
                /\ UNCHANGED << next_ptr, cycle_guard, nodes, count >>
           ELSE IF in_cycle_guard(addr, cycle_guard)
           THEN /\ truncated' = (IF head_addr # None /\ addr # head_addr THEN TRUE
                                 ELSE truncated)
                /\ walk_pc' = "done"
                /\ UNCHANGED << next_ptr, cycle_guard, nodes, count >>
           ELSE /\ cycle_guard' = cycle_guard \cup {addr}
                /\ nodes' = (IF Len(nodes) < _SAMPLE_LIMIT THEN Append(nodes, next_ptr)
                             ELSE nodes)
                /\ count' = count + 1
                /\ LET next_val == node_value(head_list, next_ptr)
                   IN  IF next_val = None
                       THEN /\ truncated' = TRUE /\ walk_pc' = "done"
                            /\ UNCHANGED next_ptr
                       ELSE /\ next_ptr' = next_of(head_list, next_val)
                            /\ UNCHANGED << truncated, walk_pc >>
    /\ UNCHANGED << avars, evars, head_list >>

\* the else clause of the loop: the walk used up its steps
LoopElse ==
    /\ walk_pc = "loop" /\ ~(steps < _MAX_WALK)
    /\ truncated' = TRUE /\ walk_pc' = "done"
    /\ UNCHANGED << avars, evars, head_list, steps, next_ptr, cycle_guard, nodes, count >>

InitWalk ==
    /\ AnalyzersInit /\ EmbedIdle
    /\ head_list \in ListShapes
    /\ walk_pc = "start"
    /\ steps = 0 /\ next_ptr = None /\ cycle_guard = {}
    /\ nodes = << >> /\ count = 0 /\ truncated = FALSE

NextWalk == CollectStart \/ LoopStep \/ LoopElse

\* the debugger runs the printer to its end
SpecWalk == InitWalk /\ [][NextWalk]_vars /\ WF_vars(NextWalk)

(***************************************************************************)
(* Vocabulary of the properties.                                           *)
(***************************************************************************)

\* the page addresses a page event stands for
Expand(e) == {e.page_addr + i * PAGE_SIZE : i \in 0..(Pow2(e.order) - 1)}

\* the page that holds an object address
PageOf(obj_addr) == (obj_addr \div PAGE_SIZE) * PAGE_SIZE

Last(seq) == seq[Len(seq)]

Extends(old, new) == Len(new) >= Len(old) /\ SubSeq(new, 1, Len(old)) = old

\* the records a step appended to a list
Added(old, new) == SubSeq(new, Len(old) + 1, Len(new))

\* the records of a list that satisfy Test, as a set of positions
Positions(seq, Test(_)) == {i \in 1..Len(seq) : Test(seq[i])}

\* the step processes a page allocation / page free / slab allocation line
PageAllocStep == Len(events') = Len(events) + 1 /\ Last(events').event_type = "alloc"
PageFreeStep == Len(events') = Len(events) + 1 /\ Last(events').event_type = "free"
SlabAllocStep ==
    Len(slab_events') = Len(slab_events) + 1 /\ Last(slab_events').event_type = "alloc"

\* the double-allocation records a page allocation e must add to a list, given
\* the allocated map ap before it
DoubleAllocationsOf(e, ap, added) ==
    /\ {added[j].page_addr : j \in 1..Len(added)} = {a \in Expand(e) : DictHas(ap, a)}
    /\ Len(added) = Cardinality({a \in Expand(e) : DictHas(ap, a)})
    /\ \A j \in 1..Len(added) :
          LET prior == DictGet(ap, added[j].page_addr)
          IN  /\ added[j].first_alloc_line = prior.line_number
              /\ added[j].first_alloc_order = prior.order
              /\ added[j].first_alloc_flags = prior.flags
              /\ added[j].second_alloc_line = e.line_number
              /\ added[j].second_alloc_order = e.order
              /\ added[j].second_alloc_flags = e.flags

(***************************************************************************)
(* C1: a page allocation records a DoubleAllocation for exactly those      *)
(* addresses of its expanded range that are allocated just before it, and  *)
(* each record carries the address with the line, order and flags of the   *)
(* prior owning event and of the new event (in both analyzers).            *)
(***************************************************************************)
C1_DoubleAllocationIff ==
    [][ PageAllocStep =>
          /\ Extends(double_allocations, double_allocations')
          /\ DoubleAllocationsOf(Last(events'), allocated_pages,
                                 Added(double_allocations, double_allocations'))
          /\ Extends(d_double_allocations, d_double_allocations')
          /\ DoubleAllocationsOf(Last(d_events'), d_allocated_pages,
                                 Added(d_double_allocations, d_double_allocations')) ]_vars

\* an order-1 allocation has just been recorded as a double allocation of one of
\* its two pages only
C1_Witness ==
    /\ events # << >>
    /\ Last(events).line_number = line_num
    /\ Last(events).event_type = "alloc"
    /\ Last(events).order = 1
    /\ Cardinality(Positions(double_allocations,
                             LAMBDA r : r.second_alloc_line = line_num)) = 1
    /\ d_double_allocations = double_allocations

(***************************************************************************)
(* C2: after a page allocation every address of its expanded range is      *)
(* allocated and owned by that event, with or without a DoubleAllocation;  *)
(* two identical order-0 allocations of one address record exactly one     *)
(* DoubleAllocation with both source lines and leave the page owned by the *)
(* second event.                                                           *)
(***************************************************************************)
C2_AllocationOwnsRange ==
    [][ PageAllocStep =>
          LET e == Last(events')
          IN  /\ \A a \in Expand(e) :
                    /\ DictHas(allocated_pages', a) /\ DictGet(allocated_pages', a) = e
                    /\ DictHas(d_allocated_pages', a) /\ DictGet(d_allocated_pages', a) = e
              /\ ( /\ events # << >>
                   /\ Last(events).event_type = "alloc"
                   /\ Last(events).order = 0 /\ e.order = 0
                   /\ Last(events).page_addr = e.page_addr
                   /\ Last(events).flags = e.flags
                   /\ ~\E k \in 1..(Len(events) - 1) : e.page_addr \in Expand(events[k]) )
                 => /\ Len(Added(double_allocations, double_allocations')) = 1
                    /\ Last(double_allocations').page_addr = e.page_addr
                    /\ Last(double_allocations').first_alloc_line = Last(events).line_number
                    /\ Last(double_allocations').second_alloc_line = e.line_number
                    /\ Len(Added(d_double_allocations, d_double_allocations')) = 1
                    /\ Last(d_double_allocations') = Last(double_allocations') ]_vars

\* the log is two identical order-0 allocations: one record, second event owns
C2_Witness ==
    /\ line_num = 2 /\ Len(events) = 2
    /\ events[1].event_type = "alloc" /\ events[2].event_type = "alloc"
    /\ events[1].order = 0 /\ events[2].order = 0
    /\ events[1].page_addr = events[2].page_addr
    /\ events[1].flags = PAGE_FLAG_SLAB /\ events[2].flags = PAGE_FLAG_SLAB
    /\ Len(double_allocations) = 1
    /\ DictGet(allocated_pages, events[2].page_addr) = events[2]

(***************************************************************************)
(* C3: a page free has, for each address of its expanded range, exactly    *)
(* one of three outcomes: allocated -> freed with no record; freed -> one  *)
(* DoubleFree naming the prior free event; absent -> one                   *)
(* FreeWithoutAllocation.  In all three the address ends freed and owned   *)
(* by this free event.                                                     *)
(***************************************************************************)
C3_FreeThreeWay ==
    [][ PageFreeStep =>
          LET e == Last(events')
              added == Added(double_frees, double_frees')
              at(a) == {j \in 1..Len(added) : added[j].page_addr = a}
          IN  /\ Extends(double_frees, double_frees')
              /\ \A j \in 1..Len(added) :
                    /\ added[j].page_addr \in Expand(e)
                    /\ added[j].free_line = e.line_number
                    /\ added[j].free_order = e.order
                    /\ added[j].free_flags = e.flags
              /\ \A a \in Expand(e) :
                    /\ DictHas(allocated_pages, a) => at(a) = {}
                    /\ (~DictHas(allocated_pages, a) /\ DictHas(freed_pages, a)) =>
                          /\ Cardinality(at(a)) = 1
                          /\ \A j \in at(a) :
                                /\ added[j].error_type = "double_free"
                                /\ added[j].original_alloc_line =
                                       DictGet(freed_pages, a).line_number
                    /\ (~DictHas(allocated_pages, a) /\ ~DictHas(freed_pages, a)) =>
                          /\ Cardinality(at(a)) = 1
                          /\ \A j \in at(a) :
                                /\ added[j].error_type = "free_without_alloc"
                                /\ added[j].original_alloc_line = None
                    /\ ~DictHas(allocated_pages', a)
                    /\ DictHas(freed_pages', a) /\ DictGet(freed_pages', a) = e ]_vars

\* an order-1 free has just freed one allocated page normally and recorded a
\* DoubleFree for the other, and a FreeWithoutAllocation was recorded earlier
C3_Witness ==
    /\ events # << >>
    /\ Last(events).line_number = line_num
    /\ Last(events).event_type = "free"
    /\ Last(events).order = 1
    /\ Positions(double_frees, LAMBDA r : r.error_type = "free_without_alloc") # {}
    /\ Cardinality(Positions(double_frees, LAMBDA r : r.free_line = line_num)) = 1
    /\ \E i \in 1..Len(double_frees) :
          /\ double_frees[i].free_line = line_num
          /\ double_frees[i].error_type = "double_free"
    /\ \A a \in Expand(Last(events)) : ~DictHas(allocated_pages, a)

(***************************************************************************)
(* C4: three frees of the same address in a row record exactly two         *)
(* DoubleFree violations (when the address was not already freed before    *)
(* the first of them), and each references the immediately preceding free: *)
(* the second free's record names the first free, the third free's record  *)
(* names the second free, never the allocation (in both analyzers).        *)
(***************************************************************************)
\* the state of address a after the page events events[1..n] of a log
LogState(log, n, a) ==
    LET touching == {k \in 1..n : a \in Expand(log[k])}
    IN  IF touching = {} THEN "absent"
        ELSE log[CHOOSE k \in touching : \A m \in touching : m <= k].event_type

ThreeFreesChained(log, df) ==
    \A j \in 1..(Len(log) - 2) :
        ( /\ log[j].event_type = "free"
          /\ log[j + 1].event_type = "free"
          /\ log[j + 2].event_type = "free"
          /\ log[j + 1].page_addr = log[j].page_addr
          /\ log[j + 2].page_addr = log[j].page_addr
          /\ log[j + 1].order = log[j].order
          /\ log[j + 2].order = log[j].order )
        => \A a \in Expand(log[j]) :
              LET by(k) == {i \in 1..Len(df) :
                               df[i].page_addr = a /\ df[i].free_line = log[k].line_number}
                  dfree(k) == {i \in by(k) : df[i].error_type = "double_free"}
              IN  /\ Cardinality(by(j + 1)) = 1 /\ dfree(j + 1) = by(j + 1)
                  /\ \A i \in by(j + 1) :
                        df[i].original_alloc_line = log[j].line_number
                  /\ Cardinality(by(j + 2)) = 1 /\ dfree(j + 2) = by(j + 2)
                  /\ \A i \in by(j + 2) :
                        df[i].original_alloc_line = log[j + 1].line_number
                  /\ LogState(log, j - 1, a) # "free" =>
                        Cardinality(dfree(j) \cup dfree(j + 1) \cup dfree(j + 2)) = 2

C5_NoAddressInBothMaps ==
    /\ DictKeys(allocated_pages) \cap DictKeys(freed_pages) = {}
    /\ DictKeys(allocated_slab_objs) \cap DictKeys(freed_slab_objs) = {}

(***************************************************************************)
(* C5 as amended: each address has at most one allocation record and at    *)
(* most one free record, and is allocated (it has an allocation record),   *)
(* freed (it has a free record only) or absent (no record).  The handlers  *)
(* never drop a free record, so an address allocated again after a free    *)
(* has both records; then the free record is stale: it is older than the   *)
(* owning allocation, and the address counts as allocated.                 *)
(***************************************************************************)
UniqueKeys(d) == \A i, j \in 1..Len(d) : d[i].k = d[j].k => i = j

StaleFreeOnly(alloc, freed) ==
    /\ UniqueKeys(alloc) /\ UniqueKeys(freed)
    /\ \A a \in DictKeys(alloc) \cap DictKeys(freed) :
          DictGet(freed, a).line_number < DictGet(alloc, a).line_number
    /\ \A i \in 1..Len(alloc) : alloc[i].v.event_type = "alloc"
    /\ \A i \in 1..Len(freed) : freed[i].v.event_type = "free"

C5_OneStatePerAddress ==
    /\ StaleFreeOnly(allocated_pages, freed_pages)
    /\ StaleFreeOnly(allocated_slab_objs, freed_slab_objs)

\* a page allocated, freed and allocated again: both records, the free one stale
C5_Witness ==
    \E a \in DictKeys(allocated_pages) \cap DictKeys(freed_pages) :
        /\ DictGet(allocated_pages, a).line_number = line_num
        /\ DictGet(freed_pages, a).line_number = line_num - 1

(***************************************************************************)
(* C6 as claimed: a slab allocation whose 4096-byte page is not currently  *)
(* allocated records exactly one SlabPageNotAllocated violation, carrying  *)
(* the computed page address.                                              *)
(***************************************************************************)
C6_UnallocatedPageReported ==
    [][ (SlabAllocStep /\ ~DictHas(allocated_pages, PageOf(Last(slab_events').obj_addr))) =>
          LET e == Last(slab_events')
              added == Added(slab_page_validation_errors, slab_page_validation_errors')
          IN  /\ Extends(slab_page_validation_errors, slab_page_validation_errors')
              /\ Len(added) = 1
              /\ added[1].error_type = "page_not_allocated"
              /\ added[1].page_addr = PageOf(e.obj_addr)
              /\ added[1].obj_addr = e.obj_addr
              /\ added[1].line_number = e.line_number ]_vars

(***************************************************************************)
(* C7 as claimed: a slab allocation whose page is currently allocated by   *)
(* an event with the slab-backing bit set records no cross-layer           *)
(* violation, whatever other pages are allocated and in whatever order.    *)
(***************************************************************************)
C7_SlabPageAccepted ==
    [][ ( /\ SlabAllocStep
          /\ DictHas(allocated_pages, PageOf(Last(slab_events').obj_addr))
          /\ BitAnd(DictGet(allocated_pages, PageOf(Last(slab_events').obj_addr)).flags,
                    PAGE_FLAG_SLAB) # 0 )
        => slab_page_validation_errors' = slab_page_validation_errors ]_vars

(***************************************************************************)
(* C8 as claimed: a slab allocation whose page is currently allocated by   *)
(* an event without the slab-backing bit records exactly one               *)
(* SlabNotInSlabPage violation, carrying the flags of the event that owns  *)
(* the containing page.                                                    *)
(***************************************************************************)
C8_NonSlabPageReported ==
    [][ ( /\ SlabAllocStep
          /\ DictHas(allocated_pages, PageOf(Last(slab_events').obj_addr))
          /\ BitAnd(DictGet(allocated_pages, PageOf(Last(slab_events').obj_addr)).flags,
                    PAGE_FLAG_SLAB) = 0 )
        => LET e == Last(slab_events')
               added == Added(slab_page_validation_errors, slab_page_validation_errors')
           IN  /\ Extends(slab_page_validation_errors, slab_page_validation_errors')
               /\ Len(added) = 1
               /\ added[1].error_type = "slab_not_in_slab_page"
               /\ added[1].obj_addr = e.obj_addr
               /\ added[1].page_flags =
                      DictGet(allocated_pages, PageOf(e.obj_addr)).flags ]_vars

(***************************************************************************)
(* C9: once a buddy range [start, end) has been observed, a page           *)
(* allocation of order k at base b records exactly one                     *)
(* PageOutsideBuddyRange violation (one per event, carrying the event and  *)
(* the bounds) if b < start or b + 2^k * 4096 > end, and none otherwise;   *)
(* a range that ends exactly at end or starts exactly at start is inside.  *)
(***************************************************************************)
C9_BuddyRangeChecked ==
    [][ (PageAllocStep /\ buddy_init_event # << >>) =>
          LET e == Last(events')
              start == buddy_init_event[1].start_addr
              end == buddy_init_event[1].end_addr
              added == Added(page_range_validation_errors, page_range_validation_errors')
          IN  /\ Extends(page_range_validation_errors, page_range_validation_errors')
              /\ IF e.page_addr < start \/ e.page_addr + Pow2(e.order) * PAGE_SIZE > end
                 THEN /\ Len(added) = 1
                      /\ added[1] = [page_addr |-> e.page_addr, order |-> e.order,
                                     flags |-> e.flags, line_number |-> e.line_number,
                                     buddy_start |-> start, buddy_end |-> end]
                 ELSE added = << >> ]_vars

\* with an arena observed, a two-page allocation filling it exactly was accepted
\* and a later two-page allocation running over its end was reported once
C9_Witness ==
    /\ buddy_init_event # << >>
    /\ Len(events) = 2
    /\ buddy_init_event[1].line_number < events[1].line_number
    /\ events[1].event_type = "alloc" /\ events[1].order = 1
    /\ events[1].page_addr = buddy_init_event[1].start_addr
    /\ events[1].page_addr + 2 * PAGE_SIZE = buddy_init_event[1].end_addr
    /\ events[2].event_type = "alloc" /\ events[2].order = 1
    /\ events[2].page_addr >= buddy_init_event[1].start_addr
    /\ Len(page_range_validation_errors) = 1
    /\ page_range_validation_errors[1].line_number = events[2].line_number
    /\ page_range_validation_errors[1].buddy_end = buddy_init_event[1].end_addr

(***************************************************************************)
(* C10: while no buddy range has been observed, no page allocation records *)
(* a PageOutsideBuddyRange violation, whatever its base and order.         *)
(***************************************************************************)
C10_NoRangeNoCheck ==
    [][ (PageAllocStep /\ buddy_init_event = << >>) =>
          page_range_validation_errors' = page_range_validation_errors ]_vars

\* three page allocations of both orders were processed with no arena observed
C10_Witness ==
    /\ buddy_init_event = << >>
    /\ Len(events) = 3
    /\ \A k \in 1..3 : events[k].event_type = "alloc"
    /\ \E k \in 1..3 : events[k].order = 1 /\ events[k].page_addr = 3 * PAGE_SIZE
    /\ \E k \in 1..3 : events[k].order = 0
    /\ page_range_validation_errors = << >>

(***************************************************************************)
(* Vocabulary over the lines of the file.                                  *)
(***************************************************************************)
\* the fields of the line convert: a slab line's cache handle is a hexadecimal
\* number
Recognised(l) ==
    l.kind \in SlabForms \cup SlabParenForms => l.fields[2] # None

\* the step reads one line of the given kind whose fields convert
ReadsLine(kind) ==
    /\ Len(lines') = Len(lines) + 1
    /\ Last(lines').kind = kind /\ Recognised(Last(lines'))

\* the positions of the lines of the given kinds among the first n lines
LinesOf(kinds, n) == {i \in 1..n : lines[i].kind \in kinds}

Max(S) == CHOOSE x \in S : \A y \in S : y <= x

ViolationLists ==
    << double_allocations, double_frees, slab_double_allocations, slab_double_frees,
       slab_page_validation_errors, page_range_validation_errors,
       d_double_allocations, d_double_frees,
       d_slab_double_allocations, d_slab_double_frees >>

(***************************************************************************)
(* C11: a buddy-arena line, first or repeated, records no violation and    *)
(* changes nothing but the remembered arena; every later page allocation   *)
(* is validated against the most recently read arena line only.            *)
(***************************************************************************)
C11_LastBuddyRangeWins ==
    [][ /\ ReadsLine("page_buddy_init") =>
            /\ UNCHANGED ViolationLists
            /\ UNCHANGED << allocated_pages, freed_pages,
                            allocated_slab_objs, freed_slab_objs >>
            /\ buddy_init_event' =
                   << [start_addr |-> Last(lines').fields[1],
                       end_addr |-> Last(lines').fields[2],
                       line_number |-> Len(lines')] >>
        /\ (ReadsLine("page_alloc") /\ LinesOf({"page_buddy_init"}, Len(lines)) # {}) =>
            LET arena == lines[Max(LinesOf({"page_buddy_init"}, Len(lines)))].fields
                e == Last(events')
                added == Added(page_range_validation_errors, page_range_validation_errors')
                outside == \/ e.page_addr < arena[1]
                           \/ e.page_addr + Pow2(e.order) * PAGE_SIZE > arena[2]
            IN  /\ Len(added) = IF outside THEN 1 ELSE 0
                /\ \A j \in 1..Len(added) :
                      /\ added[j].buddy_start = arena[1]
                      /\ added[j].buddy_end = arena[2]
                      /\ added[j].line_number = e.line_number ]_vars

\* two arena lines with different ranges, then an allocation inside the first
\* arena and outside the second: one violation, with the second arena's bounds
C11_Witness ==
    /\ Len(lines) = 3
    /\ lines[1].kind = "page_buddy_init" /\ lines[2].kind = "page_buddy_init"
    /\ lines[1].fields # lines[2].fields
    /\ lines[3].kind = "page_alloc"
    /\ events[1].page_addr >= lines[1].fields[1]
    /\ events[1].page_addr + Pow2(events[1].order) * PAGE_SIZE <= lines[1].fields[2]
    /\ Len(page_range_validation_errors) = 1
    /\ page_range_validation_errors[1].buddy_start = lines[2].fields[1]
    /\ page_range_validation_errors[1].buddy_end = lines[2].fields[2]

(***************************************************************************)
(* C12: a slab allocation of object address a records a                    *)
(* SlabDoubleAllocation if and only if a is allocated just before it;      *)
(* afterwards a is allocated and owned by the new event; it never adds to  *)
(* the slab double-free list (in both analyzers).                          *)
(***************************************************************************)
SlabAllocEffect(e, aso, asoNew, sda, sdaNew, sdf, sdfNew) ==
    LET added == Added(sda, sdaNew)
    IN  /\ Extends(sda, sdaNew)
        /\ Len(added) = IF DictHas(aso, e.obj_addr) THEN 1 ELSE 0
        /\ \A j \in 1..Len(added) :
              /\ added[j].obj_addr = e.obj_addr
              /\ added[j].first_alloc_line = DictGet(aso, e.obj_addr).line_number
              /\ added[j].second_alloc_line = e.line_number
        /\ DictHas(asoNew, e.obj_addr) /\ DictGet(asoNew, e.obj_addr) = e
        /\ sdfNew = sdf

C12_SlabDoubleAllocationIff ==
    [][ /\ ReadsLine("slab_alloc:") =>
            SlabAllocEffect(Last(slab_events'), allocated_slab_objs, allocated_slab_objs',
                            slab_double_allocations, slab_double_allocations',
                            slab_double_frees, slab_double_frees')
        /\ ReadsLine("slab_alloc():") =>
            SlabAllocEffect(Last(d_slab_events'), d_allocated_slab_objs,
                            d_allocated_slab_objs',
                            d_slab_double_allocations, d_slab_double_allocations',
                            d_slab_double_frees, d_slab_double_frees') ]_vars

\* a slab double allocation has just been recorded, the second allocation
\* under another cache than the first; the object is owned by the second
C12_Witness ==
    /\ Len(slab_double_allocations) = 1
    /\ slab_double_allocations[1].first_alloc_cache #
           slab_double_allocations[1].second_alloc_cache
    /\ DictGet(allocated_slab_objs, slab_double_allocations[1].obj_addr).line_number =
           slab_double_allocations[1].second_alloc_line
    /\ slab_double_frees = << >>

(***************************************************************************)
(* C13: a slab free of object address a has exactly one of three outcomes: *)
(* allocated -> freed with no record; freed -> one SlabDoubleFree naming   *)
(* the most recent free of a; never observed -> one                        *)
(* SlabFreeWithoutAllocation.  In all cases a ends freed and owned by the  *)
(* event (in both analyzers).                                              *)
(***************************************************************************)
SlabFreeEffect(e, aso, asoNew, fso, fsoNew, sdf, sdfNew, sda, sdaNew) ==
    LET added == Added(sdf, sdfNew)
        a == e.obj_addr
    IN  /\ Extends(sdf, sdfNew)
        /\ sdaNew = sda
        /\ \A j \in 1..Len(added) :
              /\ added[j].obj_addr = a
              /\ added[j].free_line = e.line_number
        /\ DictHas(aso, a) => added = << >>
        /\ (~DictHas(aso, a) /\ DictHas(fso, a)) =>
              /\ Len(added) = 1
              /\ added[1].error_type = "double_free"
              /\ added[1].original_alloc_line = DictGet(fso, a).line_number
        /\ (~DictHas(aso, a) /\ ~DictHas(fso, a)) =>
              /\ Len(added) = 1
              /\ added[1].error_type = "free_without_alloc"
              /\ added[1].original_alloc_line = None
        /\ ~DictHas(asoNew, a)
        /\ DictHas(fsoNew, a) /\ DictGet(fsoNew, a) = e

C13_SlabFreeThreeWay ==
    [][ /\ ReadsLine("slab_free:") =>
            SlabFreeEffect(Last(slab_events'), allocated_slab_objs, allocated_slab_objs',
                           freed_slab_objs, freed_slab_objs',
                           slab_double_frees, slab_double_frees',
                           slab_double_allocations, slab_double_allocations')
        /\ ReadsLine("slab_free():") =>
            SlabFreeEffect(Last(d_slab_events'), d_allocated_slab_objs,
                           d_allocated_slab_objs', d_freed_slab_objs, d_freed_slab_objs',
                           d_slab_double_frees, d_slab_double_frees',
                           d_slab_double_allocations, d_slab_double_allocations') ]_vars

\* one object freed before any allocation, then freed again: both records
C13_Witness ==
    /\ Len(slab_double_frees) = 2
    /\ slab_double_frees[1].error_type = "free_without_alloc"
    /\ slab_double_frees[2].error_type = "double_free"
    /\ slab_double_frees[2].obj_addr = slab_double_frees[1].obj_addr
    /\ slab_double_frees[2].original_alloc_line = slab_double_frees[1].free_line
    /\ slab_double_frees[2].free_line = line_num

(***************************************************************************)
(* C14: every slab double-allocation record and every slab double-free     *)
(* record carries the cache_name and object_size of both the prior event   *)
(* and the current event.                                                  *)
(***************************************************************************)
NameFields == {"cache_name", "first_alloc_cache", "second_alloc_cache"}
SizeFields == {"free_size", "first_alloc_size", "second_alloc_size"}

\* the event of the list read at the given line
EventAt(evts, n) == CHOOSE e \in {evts[i] : i \in 1..Len(evts)} : e.line_number = n

\* record r holds the cache name and the object size of events p and e
CarriesBoth(r, p, e) ==
    LET names == {r[f] : f \in DOMAIN r \cap NameFields}
        sizes == {r[f] : f \in DOMAIN r \cap SizeFields}
    IN  /\ {p.cache_name, e.cache_name} \subseteq names
        /\ {p.obj_size, e.obj_size} \subseteq sizes

SlabRecordsCarryBoth(evts, sda, sdf) ==
    /\ \A j \in 1..Len(sda) :
          CarriesBoth(sda[j], EventAt(evts, sda[j].first_alloc_line),
                      EventAt(evts, sda[j].second_alloc_line))
    /\ \A j \in 1..Len(sdf) :
          sdf[j].error_type = "double_free" =>
              CarriesBoth(sdf[j], EventAt(evts, sdf[j].original_alloc_line),
                          EventAt(evts, sdf[j].free_line))

C14_SlabRecordsCarryBothEvents ==
    /\ SlabRecordsCarryBoth(slab_events, slab_double_allocations, slab_double_frees)
    /\ SlabRecordsCarryBoth(d_slab_events, d_slab_double_allocations, d_slab_double_frees)

(***************************************************************************)
(* C15: a page allocation immediately followed by a free of the same base  *)
(* and order: the free records no violation and every address of the range *)
(* ends freed, owned by the free; when the two lines are the whole log no  *)
(* violation of any kind is recorded (in both analyzers).                  *)
(***************************************************************************)
\* the last two lines are an allocation and a free of the same base and order
AllocThenFree ==
    /\ Len(lines) >= 2
    /\ lines[Len(lines) - 1].kind = "page_alloc"
    /\ lines[Len(lines)].kind = "page_free"
    /\ lines[Len(lines) - 1].fields[1] = lines[Len(lines)].fields[1]
    /\ lines[Len(lines) - 1].fields[3] = lines[Len(lines)].fields[3]

FreedByLast(evts, ap, fp, df) ==
    LET e == Last(evts)
    IN  /\ e.event_type = "free" /\ e.line_number = Len(lines)
        /\ \A j \in 1..Len(df) : df[j].free_line # e.line_number
        /\ \A a \in Expand(e) :
              /\ ~DictHas(ap, a)
              /\ DictHas(fp, a) /\ DictGet(fp, a) = e

NoViolation == \A i \in 1..Len(ViolationLists) : ViolationLists[i] = << >>

C15_AllocThenFreeClean ==
    AllocThenFree =>
        /\ FreedByLast(events, allocated_pages, freed_pages, double_frees)
        /\ FreedByLast(d_events, d_allocated_pages, d_freed_pages, d_double_frees)
        /\ Len(lines) = 2 => NoViolation

\* the pair on two pages that were freed before: the old free records stay
\* and the pair adds none
C15_Witness ==
    /\ AllocThenFree
    /\ Len(lines) = 3
    /\ lines[1].kind = "page_free"
    /\ lines[1].fields = lines[3].fields
    /\ lines[3].fields[1] = 1
    /\ Len(double_frees) = 2
    /\ \A a \in Expand(Last(events)) : DictGet(freed_pages, a).line_number = 3

(***************************************************************************)
(* The end-of-run views of PageAllocAnalyzer.                              *)
(***************************************************************************)
\* find_leaks: the values of allocated_pages, one per allocated page
find_leaks == [i \in 1..Len(allocated_pages) |-> allocated_pages[i].v]

\* the error total of main
total_page_errors ==
    Len(double_allocations) + Len(double_frees) + Len(page_range_validation_errors)
total_slab_errors ==
    Len(slab_double_allocations) + Len(slab_double_frees)
        + Len(slab_page_validation_errors)
total_errors == total_page_errors + total_slab_errors

(***************************************************************************)
(* C16: at any end of the log, an address that was allocated and never     *)
(* freed has an entry in the leak view (find_leaks holds one entry per     *)
(* allocated page, the allocation owning it); it is in no double-free      *)
(* record, and in no double-allocation record when allocated once; a log   *)
(* of allocations of disjoint ranges only has leaks and an error total 0.  *)
(***************************************************************************)
AllocsOf(evts, a) ==
    {k \in 1..Len(evts) : evts[k].event_type = "alloc" /\ a \in Expand(evts[k])}
FreesOf(evts, a) ==
    {k \in 1..Len(evts) : evts[k].event_type = "free" /\ a \in Expand(evts[k])}
Touched(evts) == UNION {Expand(evts[k]) : k \in 1..Len(evts)}

\* the entries of the leak view that stand for address a
LeakEntries(a) ==
    {i \in 1..Len(find_leaks) : allocated_pages[i].k = a /\ a \in Expand(find_leaks[i])}

C16_LeakIsNotAnError ==
    /\ Len(find_leaks) = Cardinality(DictKeys(allocated_pages))
    /\ \A a \in Touched(events) :
          (AllocsOf(events, a) # {} /\ FreesOf(events, a) = {}) =>
              /\ Cardinality(LeakEntries(a)) = 1
              /\ \A i \in LeakEntries(a) :
                    find_leaks[i] = events[Max(AllocsOf(events, a))]
              /\ \A j \in 1..Len(double_frees) : double_frees[j].page_addr # a
              /\ \A j \in 1..Len(d_double_frees) : d_double_frees[j].page_addr # a
              /\ Cardinality(AllocsOf(events, a)) = 1 =>
                    /\ \A j \in 1..Len(double_allocations) :
                          double_allocations[j].page_addr # a
                    /\ \A j \in 1..Len(d_double_allocations) :
                          d_double_allocations[j].page_addr # a
    /\ ( /\ \A k \in 1..Len(lines) : lines[k].kind = "page_alloc"
         /\ \A a \in Touched(events) : Cardinality(AllocsOf(events, a)) = 1 )
       => /\ total_errors = 0
          /\ Len(find_leaks) = Cardinality(Touched(events))

\* two blocks of two pages and one page allocated and never freed: three
\* leaked pages, no error
C16_Witness ==
    /\ Len(lines) = 2
    /\ \A k \in 1..2 : lines[k].kind = "page_alloc"
    /\ events[1].order = 1
    /\ Len(find_leaks) = 3
    /\ find_leaks[2] = events[1]
    /\ find_leaks[2].page_addr # allocated_pages[2].k
    /\ total_errors = 0

(***************************************************************************)
(* C17: nothing halts ingestion: for every file, every recognised event    *)
(* line is dispatched to its handler exactly once and in file order, and   *)
(* at the end of the run the number of processed page and slab events      *)
(* equals the number of recognised event lines of the file.                *)
(***************************************************************************)
PageKinds == {"page_alloc", "page_free"}

\* the positions in the file of the recognised lines of the given kinds
EventLines(file, kinds) ==
    {i \in 1..Len(file) : file[i].kind \in kinds /\ Recognised(file[i])}

\* evts holds one event per line of the set, in the order of the lines
DispatchedOnce(evts, positions) ==
    /\ Len(evts) = Cardinality(positions)
    /\ {evts[k].line_number : k \in 1..Len(evts)} = positions
    /\ \A j, k \in 1..Len(evts) : j < k => evts[j].line_number < evts[k].line_number

C17_EveryEventDispatched ==
    LET file == lines \o unread
    IN  /\ d_exit_status = None =>
              /\ DispatchedOnce(events, EventLines(file, PageKinds))
              /\ DispatchedOnce(slab_events, EventLines(file, SlabForms))
        /\ exit_status = None =>
              /\ DispatchedOnce(d_events, EventLines(file, PageKinds))
              /\ DispatchedOnce(d_slab_events, EventLines(file, SlabParenForms))

(***************************************************************************)
(* Vocabulary: the records attached to a page event.                       *)
(***************************************************************************)
\* some violation list of either analyzer holds a record made by the event
\* read at line n
AnomalyAt(n) ==
    \/ \E j \in 1..Len(double_allocations) : double_allocations[j].second_alloc_line = n
    \/ \E j \in 1..Len(double_frees) : double_frees[j].free_line = n
    \/ \E j \in 1..Len(page_range_validation_errors) :
          page_range_validation_errors[j].line_number = n
    \/ \E j \in 1..Len(d_double_allocations) : d_double_allocations[j].second_alloc_line = n
    \/ \E j \in 1..Len(d_double_frees) : d_double_frees[j].free_line = n

\* the event, when it is the last page event, has been applied as given
AppliedAsGiven(e) ==
    \A a \in Expand(e) :
        IF e.event_type = "alloc"
        THEN DictHas(allocated_pages, a) /\ DictGet(allocated_pages, a) = e
        ELSE DictHas(freed_pages, a) /\ DictGet(freed_pages, a) = e

(***************************************************************************)
(* C19: a page event whose base address is not a multiple of 4096 has a    *)
(* reportable anomaly attached to it, and is otherwise applied as given.   *)
(***************************************************************************)
C19_UnalignedBaseReported ==
    \A k \in 1..Len(events) :
        events[k].page_addr % PAGE_SIZE # 0 =>
            /\ AnomalyAt(events[k].line_number)
            /\ k = Len(events) => AppliedAsGiven(events[k])

(***************************************************************************)
(* C20: a page event whose expanded range base + 2^order*4096 exceeds the  *)
(* address space is reported as an anomaly for that event, and no address  *)
(* at or beyond the end of the address space becomes a record key.         *)
(***************************************************************************)
C20_OverflowingRangeReported ==
    /\ \A k \in 1..Len(events) :
          events[k].page_addr + Pow2(events[k].order) * PAGE_SIZE > AddressSpace =>
              AnomalyAt(events[k].line_number)
    /\ \A a \in DictKeys(allocated_pages) \cup DictKeys(freed_pages)
                \cup DictKeys(d_allocated_pages) \cup DictKeys(d_freed_pages) :
          a < AddressSpace

(***************************************************************************)
(* The exit status of the two command-line programs when the file ends     *)
(* with the lines read so far.                                             *)
(***************************************************************************)
\* the error total of DoubleAllocAnalyzer's main
d_total_errors ==
    Len(d_double_allocations) + Len(d_double_frees)
        + Len(d_slab_double_allocations) + Len(d_slab_double_frees)

\* main returns after printing the result, whatever total_errors is: the
\* process ends with status 0 unless parse_log_file has called sys.exit
main_exit_status == IF exit_status # None THEN exit_status ELSE 0
d_main_exit_status == IF d_exit_status # None THEN d_exit_status ELSE 0

(***************************************************************************)
(* C21: a run that reads the whole file ends with a success status when    *)
(* it recorded no violation and with a non-zero status when it recorded    *)
(* at least one violation.                                                 *)
(***************************************************************************)
C21_StatusTellsViolations ==
    Running =>
        /\ main_exit_status = 0 <=> total_errors = 0
        /\ d_main_exit_status = 0 <=> d_total_errors = 0

(***************************************************************************)
(* C22: the engine never forgets an address: in every state, every page    *)
(* address touched by any event so far has an allocated record or a freed  *)
(* record, and so has every slab object address (and no other address has  *)
(* one); hence the set of known addresses never shrinks.                   *)
(***************************************************************************)
Known(alloc, freed) == DictKeys(alloc) \cup DictKeys(freed)

TouchedObjs(evts) == {evts[k].obj_addr : k \in 1..Len(evts)}

C22_NeverForgets ==
    /\ Known(allocated_pages, freed_pages) = Touched(events)
    /\ Known(d_allocated_pages, d_freed_pages) = Touched(d_events)
    /\ Known(allocated_slab_objs, freed_slab_objs) = TouchedObjs(slab_events)
    /\ Known(d_allocated_slab_objs, d_freed_slab_objs) = TouchedObjs(d_slab_events)

\* a block of two pages allocated and freed, then another page allocated: the
\* freed pages are still known
C22_Witness ==
    /\ Len(events) = 3
    /\ events[1].event_type = "alloc" /\ events[1].order = 1
    /\ events[2].event_type = "free" /\ events[2].order = 1
    /\ events[2].page_addr = events[1].page_addr
    /\ events[3].event_type = "alloc" /\ events[3].page_addr \notin Expand(events[1])
    /\ \A a \in Expand(events[1]) :
          ~DictHas(allocated_pages, a) /\ DictHas(freed_pages, a)
    /\ Cardinality(Known(allocated_pages, freed_pages)) >= 3

(***************************************************************************)
(* C23: the violation lists are append-only and in arrival order: no step  *)
(* changes or removes a record already in a list, and in each list the     *)
(* records are in non-decreasing order of the source line of the event     *)
(* that made them, the page addresses of one event in ascending order.     *)
(***************************************************************************)
\* the source line of the event that made record r
TriggerLine(r) ==
    IF "second_alloc_line" \in DOMAIN r THEN r.second_alloc_line
    ELSE IF "free_line" \in DOMAIN r THEN r.free_line
    ELSE r.line_number

\* list is in arrival order; perPage: the list holds one record per page address
InArrivalOrder(list, perPage) ==
    \A j \in 1..(Len(list) - 1) :
        \/ TriggerLine(list[j]) < TriggerLine(list[j + 1])
        \/ /\ perPage
           /\ TriggerLine(list[j]) = TriggerLine(list[j + 1])
           /\ list[j].page_addr < list[j + 1].page_addr

C23_ListsAppendOnlyInOrder ==
    [][ /\ Extends(double_allocations, double_allocations')
        /\ Extends(double_frees, double_frees')
        /\ Extends(slab_double_allocations, slab_double_allocations')
        /\ Extends(slab_double_frees, slab_double_frees')
        /\ Extends(slab_page_validation_errors, slab_page_validation_errors')
        /\ Extends(page_range_validation_errors, page_range_validation_errors')
        /\ Extends(d_double_allocations, d_double_allocations')
        /\ Extends(d_double_frees, d_double_frees')
        /\ Extends(d_slab_double_allocations, d_slab_double_allocations')
        /\ Extends(d_slab_double_frees, d_slab_double_frees')
        /\ InArrivalOrder(double_allocations', TRUE)
        /\ InArrivalOrder(double_frees', TRUE)
        /\ InArrivalOrder(slab_double_allocations', FALSE)
        /\ InArrivalOrder(slab_double_frees', FALSE)
        /\ InArrivalOrder(slab_page_validation_errors', FALSE)
        /\ InArrivalOrder(page_range_validation_errors', FALSE)
        /\ InArrivalOrder(d_double_allocations', TRUE)
        /\ InArrivalOrder(d_double_frees', TRUE)
        /\ InArrivalOrder(d_slab_double_allocations', FALSE)
        /\ InArrivalOrder(d_slab_double_frees', FALSE) ]_vars

\* a one-page free, then a two-page free of the same base: three records, the
\* two of the second event in ascending page order
C23_Witness ==
    /\ Len(double_frees) = 3
    /\ double_frees[1].free_line < double_frees[2].free_line
    /\ double_frees[2].free_line = double_frees[3].free_line
    /\ double_frees[2].page_addr < double_frees[3].page_addr
    /\ double_frees[2].error_type # double_frees[3].error_type
    /\ d_double_frees = double_frees

(***************************************************************************)
(* C24: in every state the current-allocations map holds exactly the       *)
(* addresses that are currently allocated (the last event that touched     *)
(* them is an allocation), each mapped to that allocation event, whose     *)
(* block contains the address at a whole number of pages from its base;    *)
(* no freed or absent address is in it.                                    *)
(***************************************************************************)
\* the index of the last event of the log that touches address a
LastTouch(log, a) == Max({k \in 1..Len(log) : a \in Expand(log[k])})

ExposesAllocated(log, alloc) ==
    /\ UniqueKeys(alloc)
    /\ DictKeys(alloc) =
           {a \in Touched(log) : LogState(log, Len(log), a) = "alloc"}
    /\ \A i \in 1..Len(alloc) :
          LET a == alloc[i].k
              e == alloc[i].v
          IN  /\ e = log[LastTouch(log, a)]
              /\ e.event_type = "alloc"
              /\ e.page_addr <= a /\ a < e.page_addr + Pow2(e.order) * PAGE_SIZE
              /\ (a - e.page_addr) % PAGE_SIZE = 0

C24_MapExposesAllocatedOnly ==
    /\ ExposesAllocated(events, allocated_pages)
    /\ ExposesAllocated(d_events, d_allocated_pages)

\* two blocks of two pages overlapping in one page, then the first page freed:
\* the map holds the other two pages, each owned by the block allocated last on it
C24_Witness ==
    /\ Len(events) = 3
    /\ events[1].event_type = "alloc" /\ events[1].order = 1
    /\ events[2].event_type = "alloc" /\ events[2].order = 1
    /\ events[2].page_addr = events[1].page_addr + PAGE_SIZE
    /\ events[3].event_type = "free" /\ events[3].order = 0
    /\ events[3].page_addr = events[1].page_addr
    /\ DictKeys(allocated_pages) = Expand(events[2])
    /\ \A a \in Expand(events[2]) : DictGet(allocated_pages, a) = events[2]

(***************************************************************************)
(* C25: a page event with base b and order k touches the records of        *)
(* exactly the 2^k addresses b + i*4096, 0 <= i < 2^k, in ascending order, *)
(* and an allocation and a free with equal (b, k) touch the same set.      *)
(***************************************************************************)
\* the addresses whose record in dict d is event e
OwnedBy(d, e) == {d[i].k : i \in {j \in 1..Len(d) : d[j].v = e}}

\* the keys of d are in ascending order of insertion
AscendingKeys(d) == \A i, j \in 1..Len(d) : i < j => d[i].k < d[j].k

TouchesExpansion(log, alloc, freed) ==
    /\ \A k \in 1..Len(log) :
          /\ OwnedBy(alloc, log[k]) \subseteq Expand(log[k])
          /\ OwnedBy(freed, log[k]) \subseteq Expand(log[k])
    /\ log # << >> =>
          LET e == Last(log)
              range == {e.page_addr + i * 4096 : i \in 0..(Pow2(e.order) - 1)}
          IN  /\ Cardinality(range) = Pow2(e.order)
              /\ e.event_type = "alloc" =>
                    OwnedBy(alloc, e) = range /\ OwnedBy(freed, e) = {}
              /\ e.event_type = "free" =>
                    /\ OwnedBy(freed, e) = range
                    /\ DictKeys(alloc) \cap range = {}
    /\ Len(log) = 1 => AscendingKeys(alloc) /\ AscendingKeys(freed)
    /\ ( /\ Len(log) = 2
         /\ log[1].event_type = "alloc" /\ log[2].event_type = "free"
         /\ log[1].page_addr = log[2].page_addr /\ log[1].order = log[2].order )
       => /\ alloc = << >>
          /\ AscendingKeys(freed)
          /\ DictKeys(freed) = Expand(log[1])

C25_EventTouchesItsExpansion ==
    /\ TouchesExpansion(events, allocated_pages, freed_pages)
    /\ TouchesExpansion(d_events, d_allocated_pages, d_freed_pages)

\* a block of two pages allocated and freed with the same base and order
C25_Witness ==
    /\ Len(events) = 2
    /\ events[1].event_type = "alloc" /\ events[2].event_type = "free"
    /\ events[1].order = 1 /\ events[2].order = 1
    /\ events[1].page_addr = events[2].page_addr
    /\ Len(freed_pages) = 2
    /\ freed_pages[1].k = events[2].page_addr
    /\ freed_pages[2].k = events[2].page_addr + 4096
    /\ allocated_pages = << >>

(***************************************************************************)
(* C26: the cross-layer checks are read-only on the trackers: with the     *)
(* slab-in-page and buddy-range validations PageAllocAnalyzer holds the    *)
(* same page maps and page violation lists as DoubleAllocAnalyzer, which   *)
(* runs neither; range validation adds at most one record per page         *)
(* allocation and slab-in-page validation at most one per slab allocation. *)
(***************************************************************************)
\* the lines of the events of the given type in the list
LinesOfType(evts, type) ==
    {evts[k].line_number : k \in {j \in 1..Len(evts) : evts[j].event_type = type}}

\* the list holds at most one record per line of the set and no other record
OnePerLine(list, lineset) ==
    /\ \A j \in 1..Len(list) : list[j].line_number \in lineset
    /\ \A i, j \in 1..Len(list) : list[i].line_number = list[j].line_number => i = j

C26_ValidationReadOnly ==
    /\ allocated_pages = d_allocated_pages
    /\ freed_pages = d_freed_pages
    /\ double_allocations = d_double_allocations
    /\ double_frees = d_double_frees
    /\ OnePerLine(page_range_validation_errors, LinesOfType(events, "alloc"))
    /\ OnePerLine(slab_page_validation_errors, LinesOfType(slab_events, "alloc"))

\* a two-page allocation outside the arena and a slab object on it: both
\* validations have recorded an error and the page maps are those of the
\* analyzer without validation
C26_Witness ==
    /\ Len(page_range_validation_errors) = 1
    /\ page_range_validation_errors[1].order = 1
    /\ Len(slab_page_validation_errors) = 1
    /\ Len(allocated_pages) = 2
    /\ allocated_pages = d_allocated_pages

(***************************************************************************)
(* The violations written to the report files.                             *)
(***************************************************************************)
\* list.sort(key = line) of save_report: a stable sort by the line of the
\* triggering event
RECURSIVE sort_by_line(_)
sort_by_line(seq) ==
    IF seq = << >> THEN << >>
    ELSE LET sorted == sort_by_line(SubSeq(seq, 1, Len(seq) - 1))
             r == seq[Len(seq)]
             n == Cardinality({i \in 1..Len(sorted) :
                                  TriggerLine(sorted[i]) <= TriggerLine(r)})
         IN  SubSeq(sorted, 1, n) \o << r >> \o SubSeq(sorted, n + 1, Len(sorted))

\* DoubleAllocAnalyzer.save_report: whether it writes "NO ERRORS DETECTED", and
\* the errors it writes, in the order written
save_report ==
    LET report_total_errors == Len(d_double_allocations) + Len(d_double_frees)
    IN  IF report_total_errors = 0
        THEN [no_errors |-> TRUE, all_errors |-> << >>]
        ELSE [no_errors |-> FALSE,
              all_errors |-> sort_by_line(d_double_allocations \o d_double_frees)]

\* PageAllocAnalyzer.save_error_report: the errors it writes, in the order
\* written (it never writes that there are no errors)
save_error_report ==
    LET IsDoubleFree(df) == df.error_type = "double_free"
        IsFreeWithoutAlloc(df) == df.error_type = "free_without_alloc"
    IN  double_allocations \o SelectSeq(double_frees, IsDoubleFree)
            \o SelectSeq(double_frees, IsFreeWithoutAlloc)

(***************************************************************************)
(* C27: the list of violations written by the report contains every        *)
(* violation recorded during the run, page and slab kinds alike, ordered   *)
(* by the source line of the triggering event; the report states that no   *)
(* errors were detected only when no violation of any kind was recorded.   *)
(***************************************************************************)
Written(report, list) ==
    \A j \in 1..Len(list) : \E i \in 1..Len(report) : report[i] = list[j]

InLineOrder(report) ==
    \A i \in 1..(Len(report) - 1) : TriggerLine(report[i]) <= TriggerLine(report[i + 1])

C27_ReportHoldsEveryViolation ==
    Running =>
        /\ Written(save_report.all_errors, d_double_allocations)
        /\ Written(save_report.all_errors, d_double_frees)
        /\ Written(save_report.all_errors, d_slab_double_allocations)
        /\ Written(save_report.all_errors, d_slab_double_frees)
        /\ InLineOrder(save_report.all_errors)
        /\ save_report.no_errors => d_total_errors = 0
        /\ Written(save_error_report, double_allocations)
        /\ Written(save_error_report, double_frees)
        /\ Written(save_error_report, page_range_validation_errors)
        /\ Written(save_error_report, slab_double_allocations)
        /\ Written(save_error_report, slab_double_frees)
        /\ Written(save_error_report, slab_page_validation_errors)
        /\ InLineOrder(save_error_report)

(***************************************************************************)
(* C28: if the input source cannot be read, the run aborts with an error   *)
(* status before any event is processed: no event has been dispatched and  *)
(* the page maps, slab maps and violation lists are all empty at the       *)
(* abort.                                                                  *)
(***************************************************************************)
\* both analyzers have exited on a read error (a line whose fields do not
\* convert makes only the analyzer that matches it exit)
ReadFailed == exit_status = 1 /\ d_exit_status = 1

C28_AbortBeforeAnyEvent ==
    ReadFailed =>
        /\ events = << >> /\ slab_events = << >>
        /\ d_events = << >> /\ d_slab_events = << >>
        /\ allocated_pages = << >> /\ freed_pages = << >>
        /\ allocated_slab_objs = << >> /\ freed_slab_objs = << >>
        /\ d_allocated_pages = << >> /\ d_freed_pages = << >>
        /\ d_allocated_slab_objs = << >> /\ d_freed_slab_objs = << >>
        /\ NoViolation

(***************************************************************************)
(* C29: embed_ksymbols never writes outside the placeholder: symbol data   *)
(* larger than the placeholder is rejected with an error and the kernel    *)
(* file is left unchanged, and a successful embedding (ELF or flat mode)   *)
(* leaves the kernel file's length and every byte outside the placeholder  *)
(* unchanged.                                                              *)
(***************************************************************************)
OutsidePlaceholderUnchanged ==
    LET ph == embed_args.placeholder
    IN  /\ Len(kernel_file) = Len(embed_args.kernel)
        /\ \A i \in 1..Len(embed_args.kernel) :
              ~(ph.offset < i /\ i <= ph.offset + ph.size) =>
                  kernel_file[i] = embed_args.kernel[i]

C29_EmbedStaysInPlaceholder ==
    (embed_args # << >> /\ embed_exit # None) =>
        /\ Len(embed_args.sym_data) > embed_args.placeholder.size =>
              embed_exit = 1 /\ kernel_file = embed_args.kernel
        /\ embed_exit = 0 => OutsidePlaceholderUnchanged

(***************************************************************************)
(* C30: Conservation of pages: after any sequence of page events, the      *)
(* number of currently allocated page addresses equals (total pages        *)
(* expanded by allocation events minus the number of DoubleAllocation      *)
(* records) minus (total pages expanded by free events minus the number of *)
(* DoubleFree and FreeWithoutAllocation records); the same equality holds  *)
(* for slab objects with one address per event.                            *)
(***************************************************************************)
\* the pages the first n events expand to, counting the events of one type
RECURSIVE PagesExpanded(_, _, _)
PagesExpanded(evts, type, n) ==
    IF n = 0 THEN 0
    ELSE PagesExpanded(evts, type, n - 1)
         + (IF evts[n].event_type = type THEN Cardinality(Expand(evts[n])) ELSE 0)

\* the slab events of one type, one object address each
ObjsTouched(evts, type) == Cardinality({k \in 1..Len(evts) : evts[k].event_type = type})

\* double_frees holds the double-free and the free-without-allocation records
Conserved(allocated, allocs, double_allocs, frees, double_free_records) ==
    Cardinality(DictKeys(allocated)) =
        (allocs - Len(double_allocs)) - (frees - Len(double_free_records))

C30_PagesConserved ==
    /\ Conserved(allocated_pages,
                 PagesExpanded(events, "alloc", Len(events)), double_allocations,
                 PagesExpanded(events, "free", Len(events)), double_frees)
    /\ Conserved(d_allocated_pages,
                 PagesExpanded(d_events, "alloc", Len(d_events)), d_double_allocations,
                 PagesExpanded(d_events, "free", Len(d_events)), d_double_frees)
    /\ Conserved(allocated_slab_objs,
                 ObjsTouched(slab_events, "alloc"), slab_double_allocations,
                 ObjsTouched(slab_events, "free"), slab_double_frees)
    /\ Conserved(d_allocated_slab_objs,
                 ObjsTouched(d_slab_events, "alloc"), d_slab_double_allocations,
                 ObjsTouched(d_slab_events, "free"), d_slab_double_frees)

\* one page allocated, then a block of two allocated over it, then a block of
\* two freed that ends one page after it: one double allocation, one free
\* without allocation, one page left allocated
C30_Witness ==
    /\ Len(events) = 3
    /\ events[1].event_type = "alloc" /\ events[1].order = 0
    /\ events[2].event_type = "alloc" /\ events[2].order = 1
    /\ events[2].page_addr = events[1].page_addr
    /\ events[3].event_type = "free" /\ events[3].order = 1
    /\ events[3].page_addr = events[1].page_addr + PAGE_SIZE
    /\ Len(double_allocations) = 1
    /\ Len(double_frees) = 1 /\ double_frees[1].error_type = "free_without_alloc"
    /\ DictKeys(allocated_pages) = {events[1].page_addr}

(***************************************************************************)
(* C31: Over a whole run at most one FreeWithoutAllocation is recorded per *)
(* address, and only when that free is the first event ever to touch the   *)
(* address; every later violating free of the same address is recorded as  *)
(* a DoubleFree.  The same holds for slab object addresses.                *)
(***************************************************************************)
\* an event of evts before the given line touches page address a
PageTouchedBefore(evts, a, line) ==
    \E k \in 1..Len(evts) : evts[k].line_number < line /\ a \in Expand(evts[k])

ObjTouchedBefore(evts, a, line) ==
    \E k \in 1..Len(evts) : evts[k].line_number < line /\ evts[k].obj_addr = a

\* a violating free is a free without allocation exactly when nothing touched
\* its address before, and no address has two such records
FirstTouchOnly(list, AddrOf(_), TouchedBefore(_, _)) ==
    /\ \A j \in 1..Len(list) :
          list[j].error_type = "free_without_alloc"
              <=> ~TouchedBefore(AddrOf(list[j]), list[j].free_line)
    /\ \A j \in 1..Len(list) :
          list[j].error_type # "free_without_alloc" => list[j].error_type = "double_free"
    /\ \A i, j \in 1..Len(list) :
          (/\ list[i].error_type = "free_without_alloc"
           /\ list[j].error_type = "free_without_alloc"
           /\ AddrOf(list[i]) = AddrOf(list[j])) => i = j

C31_OneFreeWithoutAllocPerAddress ==
    /\ FirstTouchOnly(double_frees, LAMBDA r : r.page_addr,
                      LAMBDA a, l : PageTouchedBefore(events, a, l))
    /\ FirstTouchOnly(d_double_frees, LAMBDA r : r.page_addr,
                      LAMBDA a, l : PageTouchedBefore(d_events, a, l))
    /\ FirstTouchOnly(slab_double_frees, LAMBDA r : r.obj_addr,
                      LAMBDA a, l : ObjTouchedBefore(slab_events, a, l))
    /\ FirstTouchOnly(d_slab_double_frees, LAMBDA r : r.obj_addr,
                      LAMBDA a, l : ObjTouchedBefore(d_slab_events, a, l))

\* an address freed three times and never allocated: one free without
\* allocation, then two double frees
C31_Witness ==
    /\ Len(double_frees) = 3
    /\ double_frees[1].error_type = "free_without_alloc"
    /\ double_frees[2].error_type = "double_free"
    /\ double_frees[3].error_type = "double_free"
    /\ double_frees[2].page_addr = double_frees[1].page_addr
    /\ double_frees[3].page_addr = double_frees[1].page_addr
    /\ Len(allocated_pages) = 0

(***************************************************************************)
(* C32: A page free is never checked against the order, base or flags of   *)
(* the allocation: every expanded address that is currently allocated is   *)
(* freed without a violation even when it was allocated by an event of a   *)
(* different base or order, and pages of the original block not covered by *)
(* the free stay allocated and owned by the original allocation event.     *)
(***************************************************************************)
\* the addresses allocated after the first n events of a log
AllocatedAfter(log, n) == {a \in Touched(log) : LogState(log, n, a) = "alloc"}

\* the event that owns address a after the first n events of a log
OwnerAfter(log, n, a) == log[Max({k \in 1..n : a \in Expand(log[k])})]

\* when the last event of the log is a free: its records are for the pages of
\* its expansion that were not allocated before it, and for no other; the
\* pages allocated before it and outside its expansion keep their owner
FreeIgnoresShape(log, alloc, df) ==
    (log # << >> /\ Last(log).event_type = "free") =>
        LET e == Last(log)
            n == Len(log) - 1
            before == AllocatedAfter(log, n)
        IN  /\ {df[j].page_addr : j \in {i \in 1..Len(df) : df[i].free_line = e.line_number}}
                  = Expand(e) \ before
            /\ DictKeys(alloc) = before \ Expand(e)
            /\ \A a \in before \ Expand(e) : DictGet(alloc, a) = OwnerAfter(log, n, a)

C32_FreeIgnoresOrderBaseFlags ==
    /\ FreeIgnoresShape(events, allocated_pages, double_frees)
    /\ FreeIgnoresShape(d_events, d_allocated_pages, d_double_frees)

\* a slab-flagged block of two pages, then a free of one page at the block's
\* second page with other flags: no violation, the first page stays with the block
C32_Witness ==
    /\ Len(events) = 2
    /\ events[1].event_type = "alloc" /\ events[1].order = 1
    /\ events[1].flags = PAGE_FLAG_SLAB
    /\ events[2].event_type = "free" /\ events[2].order = 0 /\ events[2].flags = 0
    /\ events[2].page_addr = events[1].page_addr + PAGE_SIZE
    /\ double_frees = << >> /\ d_double_frees = << >>
    /\ DictKeys(allocated_pages) = {events[1].page_addr}
    /\ DictGet(allocated_pages, events[1].page_addr) = events[1]
    /\ d_allocated_pages = allocated_pages

(***************************************************************************)
(* C33: Freed history does not poison later use: for an address that       *)
(* starts absent, any event sequence that strictly alternates allocation   *)
(* and free of that address (alloc, free, alloc, free, ...) records no     *)
(* violation, however long it is; a free is a DoubleFree only when the     *)
(* address is not currently allocated.                                     *)
(***************************************************************************)
\* the events of the log that touch address a, in order
TouchesOf(log, a) == SelectSeq(log, LAMBDA e : a \in Expand(e))

\* the events touching a are alloc, free, alloc, free, ...
Alternates(log, a) ==
    LET t == TouchesOf(log, a)
    IN  \A k \in 1..Len(t) :
            t[k].event_type = (IF k % 2 = 1 THEN "alloc" ELSE "free")

\* the position in the log of the event read at the given line
EventOfLine(log, line) == CHOOSE k \in 1..Len(log) : log[k].line_number = line

NoPoison(log, da, df) ==
    /\ \A a \in Touched(log) :
          Alternates(log, a) =>
              /\ \A j \in 1..Len(da) : da[j].page_addr # a
              /\ \A j \in 1..Len(df) : df[j].page_addr # a
    /\ \A j \in 1..Len(df) :
          LogState(log, EventOfLine(log, df[j].free_line) - 1, df[j].page_addr) # "alloc"

C33_FreedHistoryDoesNotPoison ==
    /\ NoPoison(events, double_allocations, double_frees)
    /\ NoPoison(d_events, d_double_allocations, d_double_frees)

\* a page allocated, freed and allocated again: allocated, with an older free
\* record, and no violation
C33_Witness ==
    /\ Len(events) = 3
    /\ events[1].event_type = "alloc" /\ events[1].order = 0
    /\ events[2].event_type = "free" /\ events[2].order = 0
    /\ events[3].event_type = "alloc" /\ events[3].order = 0
    /\ events[2].page_addr = events[1].page_addr
    /\ events[3].page_addr = events[1].page_addr
    /\ DictGet(allocated_pages, events[1].page_addr) = events[3]
    /\ DictGet(freed_pages, events[1].page_addr) = events[2]
    /\ double_allocations = << >> /\ double_frees = << >>
    /\ d_double_allocations = << >> /\ d_double_frees = << >>

(***************************************************************************)
(* C34: Slab state is keyed by object address alone: allocating an address *)
(* that is currently allocated under a different cache name or cache       *)
(* handle still records a SlabDoubleAllocation, and freeing an object with *)
(* a cache name, handle or size different from those it was allocated with *)
(* records no violation.                                                   *)
(***************************************************************************)
\* the state of object address a after the first n slab events of a log
SlabLogState(log, n, a) ==
    LET touching == {k \in 1..n : log[k].obj_addr = a}
    IN  IF touching = {} THEN "absent" ELSE log[Max(touching)].event_type

\* the last slab event is judged by the state of its address alone, whatever
\* cache the events before it named
KeyedByAddress(log, alloc, sda, sdf) ==
    log # << >> =>
        LET e == Last(log)
            before == SlabLogState(log, Len(log) - 1, e.obj_addr)
        IN  /\ e.event_type = "alloc" =>
                 /\ (\E j \in 1..Len(sda) : sda[j].second_alloc_line = e.line_number)
                        <=> before = "alloc"
                 /\ DictHas(alloc, e.obj_addr) /\ DictGet(alloc, e.obj_addr) = e
            /\ e.event_type = "free" =>
                 /\ (\E j \in 1..Len(sdf) : sdf[j].free_line = e.line_number)
                        <=> before # "alloc"
                 /\ ~DictHas(alloc, e.obj_addr)

C34_SlabKeyedByAddressAlone ==
    /\ KeyedByAddress(slab_events, allocated_slab_objs,
                      slab_double_allocations, slab_double_frees)
    /\ KeyedByAddress(d_slab_events, d_allocated_slab_objs,
                      d_slab_double_allocations, d_slab_double_frees)

\* an object allocated from one cache, allocated again from another (a double
\* allocation naming both caches), then freed under the first cache's name,
\* handle and size: no double free, the object is gone
C34_Witness ==
    /\ Len(slab_events) = 3
    /\ slab_events[1].event_type = "alloc"
    /\ slab_events[2].event_type = "alloc"
    /\ slab_events[3].event_type = "free"
    /\ slab_events[2].obj_addr = slab_events[1].obj_addr
    /\ slab_events[3].obj_addr = slab_events[1].obj_addr
    /\ slab_events[2].cache_name # slab_events[1].cache_name
    /\ slab_events[2].cache_ptr # slab_events[1].cache_ptr
    /\ slab_events[3].cache_name # slab_events[2].cache_name
    /\ slab_events[3].cache_ptr # slab_events[2].cache_ptr
    /\ slab_events[3].obj_size # slab_events[2].obj_size
    /\ Len(slab_double_allocations) = 1
    /\ slab_double_allocations[1].first_alloc_cache = slab_events[1].cache_name
    /\ slab_double_allocations[1].second_alloc_cache = slab_events[2].cache_name
    /\ slab_double_frees = << >>
    /\ allocated_slab_objs = << >>

(***************************************************************************)
(* C35: Page events never change slab state: processing a page allocation  *)
(* or free leaves the slab allocated and freed maps and every slab         *)
(* violation list unchanged; in particular freeing a page that still       *)
(* contains allocated slab objects records no violation and leaves those   *)
(* objects allocated.                                                      *)
(***************************************************************************)
SlabState ==
    << allocated_slab_objs, freed_slab_objs,
       slab_double_allocations, slab_double_frees, slab_page_validation_errors,
       d_allocated_slab_objs, d_freed_slab_objs,
       d_slab_double_allocations, d_slab_double_frees >>

C35_PageEventsLeaveSlabState ==
    [][ (ReadsLine("page_alloc") \/ ReadsLine("page_free")) => UNCHANGED SlabState ]_vars

\* a slab page allocated, an object allocated on it, the page freed: the free
\* is clean and the object is still allocated
C35_Witness ==
    /\ Len(lines) = 3 /\ Last(lines).kind = "page_free"
    /\ Len(events) = 2 /\ Len(slab_events) = 1
    /\ events[1].event_type = "alloc" /\ events[1].flags = PAGE_FLAG_SLAB
    /\ slab_events[1].line_number = 2
    /\ PageOf(slab_events[1].obj_addr) \in Expand(events[2])
    /\ allocated_pages = << >>
    /\ DictHas(allocated_slab_objs, slab_events[1].obj_addr)
    /\ NoViolation

(***************************************************************************)
(* C36: The two analyzers agree: fed the same sequence of page and slab    *)
(* events, DoubleAllocAnalyzer and PageAllocAnalyzer hold identical        *)
(* allocated and freed maps and identical page and slab double-allocation  *)
(* and double-free lists after every event; the extra range and slab-page  *)
(* validation of PageAllocAnalyzer never changes them.                     *)
(***************************************************************************)
SameEvents == events = d_events /\ slab_events = d_slab_events

C36_AnalyzersAgree ==
    SameEvents =>
        /\ allocated_pages = d_allocated_pages
        /\ freed_pages = d_freed_pages
        /\ double_allocations = d_double_allocations
        /\ double_frees = d_double_frees
        /\ allocated_slab_objs = d_allocated_slab_objs
        /\ freed_slab_objs = d_freed_slab_objs
        /\ slab_double_allocations = d_slab_double_allocations
        /\ slab_double_frees = d_slab_double_frees

\* both validations of PageAllocAnalyzer have fired (a page outside the arena,
\* an object on it), and the analyzers have seen the same two events
C36_Witness ==
    /\ SameEvents
    /\ Len(events) = 1 /\ Len(slab_events) = 1
    /\ page_range_validation_errors # << >>
    /\ slab_page_validation_errors # << >>
    /\ d_allocated_pages # << >> /\ d_allocated_pages = allocated_pages
    /\ d_allocated_slab_objs # << >> /\ d_allocated_slab_objs = allocated_slab_objs

(***************************************************************************)
(* C37: Buddy-range validation is not retroactive and applies to           *)
(* allocations only: observing a buddy range adds no violation for pages   *)
(* that were allocated outside it earlier and changes no existing record,  *)
(* page frees never record a PageOutsideBuddyRange, and an already         *)
(* recorded range violation keeps the bounds that were in force when it    *)
(* was recorded.                                                           *)
(***************************************************************************)
\* the buddy lines read before the given line
BuddyLinesBefore(line) ==
    {i \in 1..Len(lines) : i < line /\ lines[i].kind = "page_buddy_init"}

\* the block of event e lies outside the arena that line b announced
OutsideArena(e, b) ==
    \/ e.page_addr < lines[b].fields[1]
    \/ e.page_addr + (Pow2(e.order) * PAGE_SIZE) > lines[b].fields[2]

\* the range records are those of the allocations that lay outside the arena
\* in force when they were read, with the bounds of that arena
C37_RangeValidationNotRetroactive ==
    /\ \A k \in 1..Len(events) :
          LET e == events[k]
              arenas == BuddyLinesBefore(e.line_number)
              recs == {j \in 1..Len(page_range_validation_errors) :
                          page_range_validation_errors[j].line_number = e.line_number}
          IN  IF e.event_type = "alloc" /\ arenas # {} /\ OutsideArena(e, Max(arenas))
              THEN /\ Cardinality(recs) = 1
                   /\ \A j \in recs :
                         /\ page_range_validation_errors[j].page_addr = e.page_addr
                         /\ page_range_validation_errors[j].buddy_start
                                = lines[Max(arenas)].fields[1]
                         /\ page_range_validation_errors[j].buddy_end
                                = lines[Max(arenas)].fields[2]
              ELSE recs = {}
    /\ \A j \in 1..Len(page_range_validation_errors) :
          \E k \in 1..Len(events) :
              events[k].line_number = page_range_validation_errors[j].line_number

\* a page allocated outside the first arena, then a second arena that holds
\* it: the record stays, with the bounds of the first arena
C37_Witness ==
    /\ Len(lines) = 3
    /\ lines[1].kind = "page_buddy_init"
    /\ lines[2].kind = "page_alloc"
    /\ lines[3].kind = "page_buddy_init"
    /\ Len(page_range_validation_errors) = 1
    /\ page_range_validation_errors[1].buddy_start = lines[1].fields[1]
    /\ page_range_validation_errors[1].buddy_end = lines[1].fields[2]
    /\ buddy_init_event[1].start_addr # lines[1].fields[1]
    /\ ~OutsideArena(events[1], 3)

(***************************************************************************)
(* C38: The list walk of the debugger list printer (_collect_nodes)        *)
(* terminates on every list shape (circular through the head,              *)
(* null-terminated, a cycle that never returns to the head, unreadable     *)
(* node) after at most 512 link steps, returns at most 8 sampled nodes and *)
(* a count of at most 512, and for a well-formed circular list with        *)
(* n < 512 nodes besides the head returns count n with truncated false.    *)
(***************************************************************************)
WalkBounded ==
    /\ steps <= _MAX_WALK
    /\ Len(nodes) <= _SAMPLE_LIMIT
    /\ count <= _MAX_WALK

WalkReturned == walk_pc = "done"

CircularCounted ==
    (WalkReturned /\ head_list.kind = "circular" /\ head_list.n < _MAX_WALK) =>
        count = head_list.n /\ truncated = FALSE

C38_WalkTerminatesBounded ==
    /\ [](walk_pc # "idle" => WalkBounded /\ CircularCounted)
    /\ (walk_pc = "start") ~> WalkReturned

\* the longest circular list the walk counts in full: 511 nodes, seen to the
\* head at the last step, eight of them sampled
C38_Witness ==
    /\ WalkReturned
    /\ head_list.kind = "circular" /\ head_list.n = _MAX_WALK - 1
    /\ steps = _MAX_WALK
    /\ count = _MAX_WALK - 1 /\ truncated = FALSE
    /\ Len(nodes) = _SAMPLE_LIMIT

====
